---- MODULE Spec2Model ----
(***************************************************************************)
(* A model of the background script of the wallet extension:               *)
(*   - the alias registry and the background async thunks                  *)
(*     (src/background/redux-slices/utils.ts),                             *)
(*   - the redux store with its alias and cache middleware                 *)
(*     (src/background/main.ts, initializeStore and reduxCache),           *)
(*   - the Main service: create, start, stop and the wiring of service     *)
(*     events to store dispatches (src/background/main.ts, class Main).    *)
(***************************************************************************)
EXTENDS Integers, Sequences, FiniteSets, TLC

(***************************************************************************)
(* Bounds of the model.                                                    *)
(***************************************************************************)
MaxRegisterCalls == 2
MaxDispatches == 2
\* how many of the blob store's writes fail in one run
MaxSetRejections == 1
\* how many events the services emit in one run
MaxEvents == 2
\* how many times a connect method of Main is called after construction
MaxConnectCalls == 2
\* how many times the initial load alarm is let fire
MaxAlarmFirings == 2
\* how deep sequences and mappings nest in a value handed to the codec
MaxDepth == 2
\* how many elements a sequence, and how many members a mapping, holds
MaxLength == 2

(***************************************************************************)
(* Small input domains.                                                    *)
(***************************************************************************)
\* type prefixes handed to createBackgroundAsyncThunk
TypePrefixes == {"X", "Y"}
\* a key every object literal inherits from Object.prototype
InheritedKeys == {"constructor"}
\* an action type no thunk is registered for
PlainTypes == {"plain"}
\* payload creators (the wrapped operations)
PayloadCreators == {"h1", "h2"}
\* AsyncThunkOptions: none, or a condition that returns false for argument a2
Options == {"none", "skipA2"}
\* action payloads / thunk arguments
Args == {"a1", "a2"}
\* what an operation resolves to, and what it throws or rejects with
Results == {"5"}
Reasons == {"boom"}
None == "none"
\* values of process.env.WRITE_REDUX_CACHE
FlagValues == {"true", "false"}
\* the services Main coordinates
Services == {"preference", "chain", "indexing", "keyring", "name"}
\* what browser.storage.local may hold under "state": nothing, the encoding of
\* an object, the encoding of a number, that of null, a text that is no JSON
BlobStates == {"undefined", "{\"a\":1}", "5", "null", "{"}
\* the block hash of an observed transaction: missing, null, empty, or a hash
BlockHashes == {"undefined", "null", "", "0xb1"}
\* its gasUsed: no such field, the field set to undefined, zero, or 21000
GasUsedValues == {"absent", "undefined", "0", "21000"}
\* accounts the chain service already tracks when Main is wired
TrackedAccounts == {"0xA"}
\* how the promise returned by browser.storage.local.set settles
SetOutcomes == {"ok", "rejected"}
\* where a rejection nobody handles can come from
RejectionSources == {"storageSet", "operation", "initializeRedux", "listener"}

VARIABLES
  \* ---- redux-slices/utils.ts
  allAliases,          \* the global alias map: typePrefix -> registered handler
  registerCalls,       \* history of createBackgroundAsyncThunk calls
  \* ---- the store built by initializeStore
  WRITE_REDUX_CACHE,   \* process.env.WRITE_REDUX_CACHE
  dispatchLog,         \* every store.dispatch call, in order
  thunks,              \* the async thunk invocations, indexed by requestId
  storageSetCalls,     \* calls of browser.storage.local.set
  unhandledRejections, \* promises that rejected with no handler attached
  loggerCalls,         \* calls of logger.log
  reducedCount,        \* how many actions the reducers have applied to the state
  snapshots            \* what was handed to browser.storage.local.set, in order

VARIABLES
  \* ---- Main.create and the Main constructor
  READ_REDUX_CACHE,    \* process.env.READ_REDUX_CACHE
  blobState,           \* what the blob store holds under the key "state"
  createPc,            \* the statement of Main.create that runs next
  createResult,        \* the promise Main.create returns
  factory,             \* per service: the promise its factory returned
  factoryArgs,         \* per service: the handles its factory was given
  awaited,             \* the factory promises Main.create has awaited
  main,                \* "none", or "constructed" once the constructor ran
  preloadedState,      \* the state the store was created with
  listeners,           \* the <<emitter, event>> pairs Main listens to
  wiringPc,            \* where initializeRedux stands
  serviceCalls,        \* calls Main made into the services, in order
  savedReduxState,     \* the local variable of Main.create
  accountsToTrack,     \* what chainService.getAccountsToTrack() resolves to
  alarm                \* the initialLoadWaitExpired alarm handed to BaseService

mainVars == <<READ_REDUX_CACHE, blobState, createPc, createResult, factory,
              factoryArgs, awaited, main, preloadedState, listeners, wiringPc,
              serviceCalls, savedReduxState, accountsToTrack, alarm>>

VARIABLES
  \* ---- Main.internalStartService and Main.internalStopService
  startPc,             \* where Main's start stands
  startedChain,        \* the promise chain indexing.started().then(chain.started)
  svcStart,            \* per service: the promise its startService returned
  stopPc,              \* where Main's stop stands
  svcStop              \* per service: the promise its stopService returned

lifecycleVars == <<startPc, startedChain, svcStart, stopPc, svcStop>>

VARIABLES
  \* ---- the services' emitters
  emitted              \* history of the events the services emitted

eventVars == <<emitted>>

VARIABLES
  \* ---- the callers of the store and of the action creators
  dispatched,          \* the actions handed to store.dispatch from outside
  returnedAction,      \* the last call of a webextActionCreator and its result
  connectCalls         \* the calls of Main's connect methods made from outside

uiVars == <<dispatched, returnedAction, connectCalls>>

VARIABLES
  \* ---- the serialization codec
  codecValue,          \* the value handed to encodeJSON
  wire,                \* the text encodeJSON returned, as its tokens
  decoded              \* what decodeJSON made of the text

codecVars == <<codecValue, wire, decoded>>

aliasVars == <<allAliases, registerCalls>>
storeVars == <<WRITE_REDUX_CACHE, dispatchLog, thunks, storageSetCalls,
               unhandledRejections, loggerCalls, reducedCount, snapshots>>

vars == <<aliasVars, storeVars, mainVars, lifecycleVars, eventVars, uiVars, codecVars>>

(***************************************************************************)
(* redux-slices/utils.ts: the alias registry.                              *)
(***************************************************************************)
EmptyAliases == [t \in {} |-> None]

\* a registration guard that never fires
AlreadyAliasedNever(aliases, typePrefix) == FALSE

\* if (allAliases[typePrefix]) : the lookup on an object literal finds own
\* properties first, then those inherited from Object.prototype; every
\* function found either way is truthy.
AlreadyAliased(aliases, typePrefix) ==
  \/ typePrefix \in DOMAIN aliases
  \/ typePrefix \in InheritedKeys

\* allAliases[typePrefix] = (action) => baseThunkActionCreator(action.payload)
StoreAlias(aliases, typePrefix, payloadCreator, options) ==
  [t \in DOMAIN aliases \cup {typePrefix} |->
     IF t = typePrefix
       THEN [typePrefix |-> typePrefix, payloadCreator |-> payloadCreator,
             options |-> options]
       ELSE aliases[t]]

\* createBackgroundAsyncThunk(typePrefix, payloadCreator, options)
createBackgroundAsyncThunk(typePrefix, payloadCreator, options) ==
  /\ Len(registerCalls) < MaxRegisterCalls
  /\ IF AlreadyAliased(allAliases, typePrefix)
       THEN \* throw new Error("Attempted to register an alias twice.")
            /\ allAliases' = allAliases
            /\ registerCalls' = Append(registerCalls,
                 [typePrefix |-> typePrefix, payloadCreator |-> payloadCreator,
                  options |-> options, threw |-> TRUE])
       ELSE /\ allAliases' = StoreAlias(allAliases, typePrefix, payloadCreator, options)
            /\ registerCalls' = Append(registerCalls,
                 [typePrefix |-> typePrefix, payloadCreator |-> payloadCreator,
                  options |-> options, threw |-> FALSE])
  /\ UNCHANGED <<storeVars, mainVars, lifecycleVars, eventVars, uiVars, codecVars>>

Register ==
  \E typePrefix \in TypePrefixes \cup InheritedKeys,
     payloadCreator \in PayloadCreators, options \in Options :
    createBackgroundAsyncThunk(typePrefix, payloadCreator, options)

(***************************************************************************)
(* redux-slices/utils.ts: the handler stored in allAliases and the async   *)
(* thunk that createAsyncThunk builds for it.                              *)
(***************************************************************************)
\* a handler that runs the payload creator itself instead of the thunk
AliasHandlerCallsPayloadCreator(entry, action) ==
  [kind |-> "promise", typePrefix |-> entry.typePrefix,
   payloadCreator |-> entry.payloadCreator, options |-> entry.options,
   arg |-> action.payload]

\* a handler that hands the action's type, not its payload, to the thunk
AliasHandlerPassesType(entry, action) ==
  [kind |-> "thunk", typePrefix |-> entry.typePrefix,
   payloadCreator |-> entry.payloadCreator, options |-> entry.options,
   arg |-> action.type]

\* (action) => baseThunkActionCreator(action.payload): the thunk function the
\* registered handler returns for a relayed action
AliasHandler(entry, action) ==
  [kind |-> "thunk", typePrefix |-> entry.typePrefix,
   payloadCreator |-> entry.payloadCreator, options |-> entry.options,
   arg |-> action.payload]

\* a thunk that never looks at its condition
ConditionSkipsNever(options, arg) == FALSE

\* options.condition(arg, ...) === false
ConditionSkips(options, arg) == options = "skipA2" /\ arg = "a2"

\* an action creator that also runs the operation where it is called
webextActionCreatorRunsOperation(typePrefix, payload) ==
  [action |-> [type |-> typePrefix, payload |-> payload], invoked |-> <<typePrefix>>]

\* (payload) => ({type: typePrefix, payload}): the action returned, and the
\* operations invoked on the way
webextActionCreator(typePrefix, payload) ==
  [action |-> [type |-> typePrefix, payload |-> payload], invoked |-> << >>]

\* a plain action object {type, payload}, as store.dispatch receives it
PlainAction(type, payload) ==
  [type |-> type, phase |-> "action", payload |-> payload, arg |-> None,
   requestId |-> 0, reduced |-> FALSE, writes |-> << >>]

\* the lifecycle action creators of the thunk: typePrefix/pending,
\* typePrefix/fulfilled, typePrefix/rejected, each carrying meta.arg and
\* meta.requestId
pending(typePrefix, requestId, arg) ==
  [type |-> typePrefix, phase |-> "pending", payload |-> None, arg |-> arg,
   requestId |-> requestId, reduced |-> FALSE, writes |-> << >>]

fulfilled(typePrefix, result, requestId, arg) ==
  [type |-> typePrefix, phase |-> "fulfilled", payload |-> result, arg |-> arg,
   requestId |-> requestId, reduced |-> FALSE, writes |-> << >>]

rejected(typePrefix, reason, requestId, arg) ==
  [type |-> typePrefix, phase |-> "rejected", payload |-> reason, arg |-> arg,
   requestId |-> requestId, reduced |-> FALSE, writes |-> << >>]

\* the final action of a thunk whose operation settled with `value`
TerminalAction(thunk, requestId, value) ==
  IF value \in Results
    THEN fulfilled(thunk.typePrefix, value, requestId, thunk.arg)
    ELSE rejected(thunk.typePrefix, value, requestId, thunk.arg)

\* the bookkeeping of one thunk invocation; `promise` is the promise the thunk
\* returns through dispatch
ThunkRecord(thunk, status, outcome, promise) ==
  [typePrefix |-> thunk.typePrefix, payloadCreator |-> thunk.payloadCreator,
   arg |-> thunk.arg, status |-> status, outcome |-> outcome,
   promise |-> promise]

\* an invocation that lets the operation's failure reject the returned promise
SettledThunkPropagates(t, value) ==
  [t EXCEPT !.status = IF value \in Results THEN "fulfilled" ELSE "rejected",
            !.outcome = value,
            !.promise = IF value \in Results THEN "resolved" ELSE "rejected"]

\* the invocation once its operation settled with `value`: the failure is
\* turned into the rejected action and the returned promise resolves with it
SettledThunk(t, value) ==
  [t EXCEPT !.status = IF value \in Results THEN "fulfilled" ELSE "rejected",
            !.outcome = value,
            !.promise = "resolved"]

(***************************************************************************)
(* main.ts: reduxCache and the middleware pipeline of initializeStore.     *)
(***************************************************************************)
\* a cache middleware that writes whatever the flag says
reduxCacheIgnoresFlag(action, setOutcome) ==
  [action EXCEPT !.reduced = TRUE, !.writes = <<setOutcome>>]

\* a cache middleware that does not pass the action on
reduxCacheSkipsNext(action, setOutcome) ==
  [action EXCEPT !.writes = IF WRITE_REDUX_CACHE = "true"
                              THEN <<setOutcome>> ELSE << >>]

\* reduxCache: next(action) hands the action to the reducers; then, if the
\* flag is set, browser.storage.local.set is called once, its promise dropped
reduxCache(action, setOutcome) ==
  [action EXCEPT !.reduced = TRUE,
                 !.writes = IF WRITE_REDUX_CACHE = "true"
                              THEN <<setOutcome>> ELSE << >>]

RECURSIVE SetCallsOf(_)
SetCallsOf(entries) ==
  IF entries = << >> THEN 0
  ELSE Len(Head(entries).writes) + SetCallsOf(Tail(entries))

RECURSIVE RejectedSetsOf(_)
RejectedSetsOf(entries) ==
  IF entries = << >> THEN 0
  ELSE Cardinality({i \in DOMAIN Head(entries).writes :
                      Head(entries).writes[i] = "rejected"})
       + RejectedSetsOf(Tail(entries))

\* the reducers (redux-slices, rootReducer) turn a state and an action into
\* the next state; a state is identified by the number of actions reduced
\* into the preloaded state
rootReducer(state, action) == state + 1

\* encodeJSON: the text that stands for a value
encodeJSON(value) == <<"json", value>>

\* a cache middleware that reads the state before it passes the action on
CachedStateBeforeNext(stateBeforeNext, stateAfterNext) == stateBeforeNext

\* const result = next(action); const state = store.getState(): the state
\* reduxCache reads is the one the store holds once next(action) returned
CachedState(stateBeforeNext, stateAfterNext) == stateAfterNext

\* the store's state after the entries went through the pipeline
RECURSIVE StateAfter(_, _)
StateAfter(state, entries) ==
  IF entries = << >> THEN state
  ELSE StateAfter(IF Head(entries).reduced THEN rootReducer(state, Head(entries))
                  ELSE state,
                  Tail(entries))

\* the snapshots reduxCache hands to browser.storage.local.set while the
\* entries go through the pipeline; `at` is the place of the entry in the log
RECURSIVE SnapshotsOf(_, _, _)
SnapshotsOf(state, at, entries) ==
  IF entries = << >> THEN << >>
  ELSE LET a == Head(entries)
           after == StateAfter(state, <<a>>)
       IN (IF a.writes # << >>
             THEN <<[at |-> at + 1, state |-> encodeJSON(CachedState(state, after))]>>
             ELSE << >>)
          \o SnapshotsOf(after, at + 1, Tail(entries))

\* the effect of a run of dispatches on the store-side state; a set promise
\* that rejects has no handler, and neither has a thunk promise that rejects
Commit(entries, rejectedPromises) ==
  /\ unhandledRejections["storageSet"] + RejectedSetsOf(entries) <= MaxSetRejections
  /\ dispatchLog' = dispatchLog \o entries
  /\ storageSetCalls' = storageSetCalls + SetCallsOf(entries)
  /\ unhandledRejections' =
       [unhandledRejections EXCEPT
          !["storageSet"] = @ + RejectedSetsOf(entries),
          !["operation"] = @ + rejectedPromises]
  /\ reducedCount' = StateAfter(reducedCount, entries)
  /\ snapshots' = snapshots \o SnapshotsOf(reducedCount, Len(dispatchLog), entries)
  /\ UNCHANGED loggerCalls

TopLevelDispatches ==
  Cardinality({i \in DOMAIN dispatchLog : dispatchLog[i].phase = "action"})

\* the thunk middleware runs the thunk: condition, pending, the operation
RunThunk(call, thunk, requestId) ==
  IF ConditionSkips(thunk.options, thunk.arg)
    THEN /\ Commit(<<call>>, 0)
         /\ thunks' = Append(thunks, ThunkRecord(thunk, "skipped", None, "resolved"))
    ELSE \E s1 \in SetOutcomes, thrown \in Reasons \cup {None} :
           IF thrown = None
             THEN \* the operation returned a promise that is still pending
                  /\ Commit(<<call,
                        reduxCache(pending(thunk.typePrefix, requestId, thunk.arg), s1)>>, 0)
                  /\ thunks' = Append(thunks, ThunkRecord(thunk, "running", None, "pending"))
             ELSE \* the operation threw before returning
                  \E s2 \in SetOutcomes :
                    LET t == SettledThunk(ThunkRecord(thunk, "running", None, "pending"), thrown)
                    IN /\ Commit(<<call,
                             reduxCache(pending(thunk.typePrefix, requestId, thunk.arg), s1),
                             reduxCache(TerminalAction(thunk, requestId, thrown), s2)>>,
                             IF t.promise = "rejected" THEN 1 ELSE 0)
                       /\ thunks' = Append(thunks, t)

\* store.dispatch({type, payload}) on the background store
Dispatch(type, payload) ==
  /\ TopLevelDispatches < MaxDispatches
  /\ LET action == PlainAction(type, payload)
     IN IF type \in DOMAIN allAliases
          THEN \* alias middleware: next(alias(action))
               LET thunk == AliasHandler(allAliases[type], action)
                   requestId == Len(thunks) + 1
                   call == [action EXCEPT !.requestId = requestId]
               IN IF thunk.kind = "thunk"
                    THEN RunThunk(call, thunk, requestId)
                    ELSE \* not a function: it travels on to the reducers
                         \E s \in SetOutcomes :
                           /\ Commit(<<reduxCache(call, s)>>, 0)
                           /\ thunks' = Append(thunks,
                                ThunkRecord(thunk, "unwrapped", None, "pending"))
          ELSE \* no alias: next(action), through to reduxCache
               \E s \in SetOutcomes :
                 /\ Commit(<<reduxCache(action, s)>>, 0)
                 /\ UNCHANGED thunks
  /\ dispatched' = Append(dispatched, [type |-> type, payload |-> payload])
  /\ UNCHANGED <<codecVars, aliasVars, WRITE_REDUX_CACHE, mainVars, lifecycleVars, eventVars,
                 returnedAction, connectCalls>>

DispatchAction ==
  \E type \in TypePrefixes \cup PlainTypes, payload \in Args :
    Dispatch(type, payload)

\* the promise of a running operation settles; the thunk dispatches its final
\* action
SettleOperation(requestId, value) ==
  /\ requestId \in DOMAIN thunks
  /\ thunks[requestId].status = "running"
  /\ \E s \in SetOutcomes :
       LET t == SettledThunk(thunks[requestId], value)
       IN /\ Commit(<<reduxCache(TerminalAction(thunks[requestId], requestId, value), s)>>,
                    IF t.promise = "rejected" THEN 1 ELSE 0)
          /\ thunks' = [thunks EXCEPT ![requestId] = t]
  /\ UNCHANGED <<aliasVars, WRITE_REDUX_CACHE, mainVars, lifecycleVars, eventVars, uiVars, codecVars>>

OperationSettles ==
  \E requestId \in DOMAIN thunks, value \in Results \cup Reasons :
    SettleOperation(requestId, value)

\* a context calls the action creator createBackgroundAsyncThunk returned for
\* typePrefix
CallActionCreator(typePrefix, payload) ==
  /\ typePrefix \in DOMAIN allAliases
  /\ LET r == webextActionCreator(typePrefix, payload)
     IN /\ returnedAction' = [typePrefix |-> typePrefix, arg |-> payload,
                              result |-> r.action]
        /\ thunks' = thunks \o
             [i \in DOMAIN r.invoked |->
                ThunkRecord(AliasHandler(allAliases[r.invoked[i]],
                                         PlainAction(typePrefix, payload)),
                            "running", None, "pending")]
  /\ UNCHANGED <<codecVars, aliasVars, WRITE_REDUX_CACHE, dispatchLog, storageSetCalls,
                 unhandledRejections, loggerCalls, reducedCount, snapshots,
                 mainVars, lifecycleVars, eventVars, dispatched, connectCalls>>

CallActionCreatorAny ==
  \E typePrefix \in TypePrefixes, payload \in Args :
    CallActionCreator(typePrefix, payload)

\* the store right after initializeStore, with nothing dispatched yet
InitStore ==
  /\ WRITE_REDUX_CACHE \in FlagValues
  /\ dispatchLog = << >>
  /\ thunks = << >>
  /\ storageSetCalls = 0
  /\ unhandledRejections = [source \in RejectionSources |-> 0]
  /\ loggerCalls = 0
  /\ reducedCount = 0
  /\ snapshots = << >>

(***************************************************************************)
(* background/lib/utils: the serialization codec behind encodeJSON and     *)
(* decodeJSON, at the level of the values it carries.  main.ts hands it to *)
(* wrapStore as serializer and deserializer and reduxCache encodes the     *)
(* store state with it.                                                    *)
(***************************************************************************)
\* the values the codec carries: a kind and what the kind holds
Value(kind, val) == [kind |-> kind, val |-> val]
\* kinds: "null", "boolean", "number", "bigint" (an extended-precision
\* integer), "string", "array" (an ordered sequence of values) and "object" (a
\* string-keyed mapping, a function from its keys to values)
Null == Value("null", "null")
\* no value at all: nothing was decoded yet
NoValue == Value("none", "none")
\* what decode fails with
ParseError == Value("ParseError", "ParseError")

\* the keys of the mappings, in the order the text lists them
KeyOrder == <<"a", "b">>
\* the primitives a value starts from
Leaves == {Null, Value("boolean", TRUE), Value("boolean", FALSE), Value("number", 10),
           Value("bigint", 10), Value("string", "a")}
\* the primitives added to an existing sequence or mapping
MoreLeaves == {Null, Value("number", 10), Value("bigint", 10)}

\* the tokens of the text
Token(class, lexeme) == <<class, lexeme>>

\* how many levels of sequences and mappings a value has
RECURSIVE Depth(_)
Depth(v) ==
  IF v.kind \in {"array", "object"}
    THEN LET depths == {Depth(v.val[i]) : i \in DOMAIN v.val}
         IN 1 + (IF depths = {} THEN 0
                 ELSE CHOOSE d \in depths : \A other \in depths : other <= d)
    ELSE 0

\* an extended-precision integer written as an ordinary number: the tag left out
encodeBigIntUntagged(n) == <<Token("num", n)>>
\* an extended-precision integer is tagged, so that decode can tell it from
\* an ordinary number
encodeBigInt(n) == <<Token("tag", "bigint"), Token("num", n)>>

\* encode(value) -> text: primitives pass through, extended-precision
\* integers are tagged, sequences and mappings are walked recursively
RECURSIVE encode(_)
RECURSIVE encodeElements(_)
RECURSIVE encodeMembers(_, _)
encodeElements(elements) ==
  IF elements = << >> THEN << >>
  ELSE encode(Head(elements))
         \o (IF Len(elements) > 1 THEN <<Token("punct", ",")>> ELSE << >>)
         \o encodeElements(Tail(elements))
encodeMembers(members, keys) ==
  IF keys = << >> THEN << >>
  ELSE <<Token("str", Head(keys)), Token("punct", ":")>> \o encode(members[Head(keys)])
         \o (IF Len(keys) > 1 THEN <<Token("punct", ",")>> ELSE << >>)
         \o encodeMembers(members, Tail(keys))
encode(v) ==
  CASE v.kind = "null"    -> <<Token("lit", "null")>>
    [] v.kind = "boolean" -> <<Token("lit", IF v.val THEN "true" ELSE "false")>>
    [] v.kind = "number"  -> <<Token("num", v.val)>>
    [] v.kind = "bigint"  -> encodeBigInt(v.val)
    [] v.kind = "string"  -> <<Token("str", v.val)>>
    [] v.kind = "array"   -> <<Token("punct", "[")>> \o encodeElements(v.val) \o <<Token("punct", "]")>>
    [] v.kind = "object"  -> <<Token("punct", "{")>> \o encodeMembers(v.val, SelectSeq(KeyOrder, LAMBDA k : k \in DOMAIN v.val))
                               \o <<Token("punct", "}")>>

\* the result of parsing a prefix of the text
Parsed(v, rest) == [ok |-> TRUE, value |-> v, rest |-> rest]
Failed == [ok |-> FALSE, value |-> ParseError, rest |-> << >>]
EmptyMembers == [k \in {} |-> Null]
PutMember(members, key, v) ==
  [k \in DOMAIN members \cup {key} |-> IF k = key THEN v ELSE members[k]]

\* the inverse transform, token by token
RECURSIVE parseValue(_)
RECURSIVE parseElements(_, _)
RECURSIVE parseMembers(_, _)
parseElements(text, acc) ==
  IF text = << >> THEN Failed
  ELSE IF acc = << >> /\ Head(text) = Token("punct", "]") THEN Parsed(Value("array", acc), Tail(text))
  ELSE LET r == parseValue(text)
       IN IF ~r.ok \/ r.rest = << >> THEN Failed
          ELSE IF Head(r.rest) = Token("punct", "]")
                 THEN Parsed(Value("array", Append(acc, r.value)), Tail(r.rest))
          ELSE IF Head(r.rest) = Token("punct", ",")
                 THEN parseElements(Tail(r.rest), Append(acc, r.value))
          ELSE Failed
parseMembers(text, acc) ==
  IF text = << >> THEN Failed
  ELSE IF DOMAIN acc = {} /\ Head(text) = Token("punct", "}") THEN Parsed(Value("object", acc), Tail(text))
  ELSE IF Len(text) < 2 \/ Head(text)[1] # "str" \/ text[2] # Token("punct", ":") THEN Failed
  ELSE LET key == Head(text)[2]
           r == parseValue(SubSeq(text, 3, Len(text)))
       IN IF ~r.ok \/ r.rest = << >> THEN Failed
          ELSE IF Head(r.rest) = Token("punct", "}")
                 THEN Parsed(Value("object", PutMember(acc, key, r.value)), Tail(r.rest))
          ELSE IF Head(r.rest) = Token("punct", ",")
                 THEN parseMembers(Tail(r.rest), PutMember(acc, key, r.value))
          ELSE Failed
parseValue(text) ==
  IF text = << >> THEN Failed
  ELSE LET t == Head(text)
           rest == Tail(text)
       IN CASE t = Token("lit", "null")  -> Parsed(Null, rest)
            [] t = Token("lit", "true")  -> Parsed(Value("boolean", TRUE), rest)
            [] t = Token("lit", "false") -> Parsed(Value("boolean", FALSE), rest)
            [] t[1] = "num"     -> Parsed(Value("number", t[2]), rest)
            [] t[1] = "str"     -> Parsed(Value("string", t[2]), rest)
            \* a tag is followed by the digits of the integer, or is malformed
            [] t = Token("tag", "bigint")          -> IF rest # << >> /\ Head(rest)[1] = "num"
                                     THEN Parsed(Value("bigint", Head(rest)[2]), Tail(rest))
                                     ELSE Failed
            [] t = Token("punct", "[")   -> parseElements(rest, << >>)
            [] t = Token("punct", "{")   -> parseMembers(rest, EmptyMembers)
            [] OTHER            -> Failed

\* decode(text) -> value: fails with ParseError unless the whole text is one
\* encoded value
decode(text) ==
  LET r == parseValue(text)
  IN IF r.ok /\ r.rest = << >> THEN r.value ELSE ParseError

\* the codec has nothing in hand
InitCodec ==
  /\ codecValue = NoValue
  /\ wire = << >>
  /\ decoded = NoValue


\* nothing was dispatched from outside and no action creator was called
InitUi ==
  /\ dispatched = << >>
  /\ returnedAction = [typePrefix |-> None, arg |-> None,
                       result |-> [type |-> None, payload |-> None]]
  /\ connectCalls = << >>

(***************************************************************************)
(* main.ts: Main.create.                                                   *)
(***************************************************************************)
\* a Main.create that awaits the chain service before it creates the rest
CreateStepsAwaitsChainEarly == <<
  [op |-> "invoke", svc |-> "preference", args |-> << >>],
  [op |-> "invoke", svc |-> "chain", args |-> <<"preference">>],
  [op |-> "await", svc |-> "chain", args |-> << >>],
  [op |-> "invoke", svc |-> "indexing", args |-> <<"preference", "chain">>],
  [op |-> "invoke", svc |-> "keyring", args |-> << >>],
  [op |-> "invoke", svc |-> "name", args |-> <<"chain">>],
  [op |-> "readCache", svc |-> None, args |-> << >>],
  [op |-> "await", svc |-> "preference", args |-> << >>],
  [op |-> "await", svc |-> "indexing", args |-> << >>],
  [op |-> "await", svc |-> "keyring", args |-> << >>],
  [op |-> "await", svc |-> "name", args |-> << >>],
  [op |-> "construct", svc |-> None, args |-> << >>] >>

\* the statements of Main.create, in the order they run
CreateSteps == <<
  [op |-> "invoke", svc |-> "preference", args |-> << >>],
  [op |-> "invoke", svc |-> "chain", args |-> <<"preference">>],
  [op |-> "invoke", svc |-> "indexing", args |-> <<"preference", "chain">>],
  [op |-> "invoke", svc |-> "keyring", args |-> << >>],
  [op |-> "invoke", svc |-> "name", args |-> <<"chain">>],
  [op |-> "readCache", svc |-> None, args |-> << >>],
  [op |-> "await", svc |-> "preference", args |-> << >>],
  [op |-> "await", svc |-> "chain", args |-> << >>],
  [op |-> "await", svc |-> "indexing", args |-> << >>],
  [op |-> "await", svc |-> "keyring", args |-> << >>],
  [op |-> "await", svc |-> "name", args |-> << >>],
  [op |-> "construct", svc |-> None, args |-> << >>] >>

CreateRunning == createResult = "pending" /\ createPc \in DOMAIN CreateSteps

\* the statement Main.create runs next
CurrentStep ==
  IF createPc \in DOMAIN CreateSteps THEN CreateSteps[createPc]
  ELSE [op |-> "return", svc |-> None, args |-> << >>]

\* Main.create has given up control: it is finished, or its next statement
\* is an await
CreateSuspended ==
  \/ ~CreateRunning
  \/ CurrentStep.op = "await"
  \/ CurrentStep.op = "readCache" /\ READ_REDUX_CACHE = "true"

\* decodeJSON on the stored text: the decoded value, or a parse error
decodeJSON(text) ==
  CASE text = "{\"a\":1}" -> [kind |-> "object", value |-> "{a: 1}"]
    [] text = "5"         -> [kind |-> "number", value |-> "5"]
    [] text = "null"      -> [kind |-> "null", value |-> "null"]
    [] OTHER              -> [kind |-> "ParseError", value |-> None]

\* a test of the stored state that does not look at the flag
ReadsSnapshotIgnoresFlag(flag, blob) == blob # "undefined"

\* process.env.READ_REDUX_CACHE === "true", and then if (state): the stored
\* text is read and there is one
ReadsSnapshot(flag, blob) == flag = "true" /\ blob # "undefined"

\* a restore that starts from the empty state when the text is unusable
RestoredStateFallsBack(blob) ==
  IF decodeJSON(blob).kind = "object"
    THEN [ok |-> TRUE, state |-> decodeJSON(blob).value]
    ELSE [ok |-> TRUE, state |-> "{}"]

\* const restoredState = decodeJSON(state); it is taken if
\* typeof restoredState === "object" && restoredState !== null, otherwise
\* (and when decodeJSON throws) Main.create throws
RestoredState(blob) ==
  IF decodeJSON(blob).kind = "object"
    THEN [ok |-> TRUE, state |-> decodeJSON(blob).value]
    ELSE [ok |-> FALSE, state |-> None]

\* the listeners the four connect methods attach before connectChainService
\* reaches its first await, in the order initializeRedux attaches them
ListenersAtConstruction == <<
  <<"indexing", "accountBalance">>, <<"indexing", "assets">>, <<"indexing", "price">>,
  <<"keyring", "keyrings">>, <<"keyring", "address">>, <<"keyring", "signedTx">>,
  <<"keyringSlice", "unlockKeyring">>, <<"keyringSlice", "generateNewKeyring">>,
  <<"keyringSlice", "importLegacyKeyring">>,
  <<"name", "resolvedName">>, <<"name", "resolvedAvatar">>,
  <<"chain", "accountBalance">>, <<"chain", "transaction">>, <<"chain", "block">>,
  <<"accountSlice", "addAccount">>, <<"transactionSlice", "updateOptions">> >>

\* an alarm that is also given a period
InitialLoadWaitExpiredPeriodic ==
  [delayInMinutes |-> "2.5", periodInMinutes |-> "2.5",
   handler |-> "ui/initializationLoadingTimeHitLimit"]

\* super({initialLoadWaitExpired: {schedule: {delayInMinutes: 2.5}, handler:
\* () => this.store.dispatch(initializationLoadingTimeHitLimit())}})
InitialLoadWaitExpired ==
  [delayInMinutes |-> "2.5", periodInMinutes |-> None,
   handler |-> "ui/initializationLoadingTimeHitLimit"]

\* BaseService's constructor: the alarm it is handed is armed from
\* construction on
BaseServiceAlarm(schedule) == "armed"

\* the constructor: the store is created from the saved state and
\* initializeRedux runs up to the await in connectChainService
Construct ==
  /\ main' = "constructed"
  /\ preloadedState' = savedReduxState
  /\ listeners' = listeners \o ListenersAtConstruction
  /\ wiringPc' = "awaitAccounts"
  /\ serviceCalls' = Append(serviceCalls,
       [svc |-> "chain", method |-> "getAccountsToTrack",
        emitter |-> "wiring", event |-> "connectChainService"])
  /\ alarm' = BaseServiceAlarm(InitialLoadWaitExpired)

\* one statement of Main.create
CreateStep ==
  /\ CreateRunning
  /\ LET step == CurrentStep
     IN CASE step.op = "invoke" ->
               /\ factory' = [factory EXCEPT ![step.svc] = "pending"]
               /\ factoryArgs' = [factoryArgs EXCEPT ![step.svc] = step.args]
               /\ createPc' = createPc + 1
               /\ UNCHANGED <<createResult, awaited, main, preloadedState, listeners,
                              wiringPc, serviceCalls, savedReduxState, alarm>>
          [] step.op = "readCache" ->
               /\ IF ReadsSnapshot(READ_REDUX_CACHE, blobState)
                    THEN IF RestoredState(blobState).ok
                           THEN /\ savedReduxState' = RestoredState(blobState).state
                                /\ createPc' = createPc + 1
                                /\ UNCHANGED createResult
                           ELSE \* decodeJSON threw, or the value is no object
                                /\ createResult' = "rejected"
                                /\ UNCHANGED <<createPc, savedReduxState>>
                    ELSE /\ createPc' = createPc + 1
                         /\ UNCHANGED <<createResult, savedReduxState>>
               /\ UNCHANGED <<factory, factoryArgs, awaited, main, preloadedState,
                              listeners, wiringPc, serviceCalls, alarm>>
          [] step.op = "await" ->
               /\ factory[step.svc] \in {"resolved", "rejected"}
               /\ IF factory[step.svc] = "resolved"
                    THEN /\ awaited' = awaited \cup {step.svc}
                         /\ createPc' = createPc + 1
                         /\ UNCHANGED createResult
                    ELSE /\ createResult' = "rejected"
                         /\ UNCHANGED <<createPc, awaited>>
               /\ UNCHANGED <<factory, factoryArgs, main, preloadedState, listeners,
                              wiringPc, serviceCalls, savedReduxState, alarm>>
          [] step.op = "construct" ->
               /\ Construct
               /\ createPc' = createPc + 1
               /\ createResult' = "resolved"
               /\ UNCHANGED <<factory, factoryArgs, awaited, savedReduxState>>
  /\ UNCHANGED <<READ_REDUX_CACHE, blobState, accountsToTrack, aliasVars, storeVars,
                 lifecycleVars, eventVars, uiVars, codecVars>>

\* the promise of a service factory settles; a factory that was handed other
\* services' promises resolves only after they resolved
FactorySettles(svc, outcome) ==
  /\ CreateSuspended
  /\ factory[svc] = "pending"
  /\ outcome = "resolved" =>
       \A i \in DOMAIN factoryArgs[svc] : factory[factoryArgs[svc][i]] = "resolved"
  /\ factory' = [factory EXCEPT ![svc] = outcome]
  /\ UNCHANGED <<READ_REDUX_CACHE, blobState, createPc, createResult, factoryArgs,
                 awaited, main, preloadedState, listeners, wiringPc, serviceCalls,
                 savedReduxState, accountsToTrack, alarm, aliasVars, storeVars,
                 lifecycleVars, eventVars, uiVars, codecVars>>

FactorySettlesAny ==
  \E svc \in Services, outcome \in {"resolved", "rejected"} : FactorySettles(svc, outcome)

\* connectChainService after its await: the tracked accounts are loaded,
\* block price polling starts, the blockPrices listener is attached
WiringContinues ==
  /\ wiringPc = "awaitAccounts"
  /\ \E outcomes \in [DOMAIN accountsToTrack -> SetOutcomes] :
       Commit([i \in DOMAIN accountsToTrack |->
                 reduxCache(PlainAction("account/loadAccount", accountsToTrack[i]),
                            outcomes[i])], 0)
  /\ serviceCalls' = serviceCalls
       \o [i \in DOMAIN accountsToTrack |->
             [svc |-> "chain", method |-> "getLatestBaseAccountBalance",
              emitter |-> "wiring", event |-> "connectChainService"]]
       \o <<[svc |-> "chain", method |-> "pollBlockPrices",
             emitter |-> "wiring", event |-> "connectChainService"]>>
  /\ listeners' = Append(listeners, <<"chain", "blockPrices">>)
  /\ wiringPc' = "done"
  /\ UNCHANGED <<READ_REDUX_CACHE, blobState, createPc, createResult, factory,
                 factoryArgs, awaited, main, preloadedState, savedReduxState,
                 accountsToTrack, alarm, aliasVars, WRITE_REDUX_CACHE, thunks,
                 lifecycleVars, eventVars, uiVars, codecVars>>

\* getAccountsToTrack rejects: initializeRedux rejects, and the constructor
\* dropped its promise
WiringFails ==
  /\ wiringPc = "awaitAccounts"
  /\ wiringPc' = "failed"
  /\ unhandledRejections' = [unhandledRejections EXCEPT !["initializeRedux"] = @ + 1]
  /\ UNCHANGED <<READ_REDUX_CACHE, blobState, createPc, createResult, factory,
                 factoryArgs, awaited, main, preloadedState, listeners, serviceCalls,
                 savedReduxState, accountsToTrack, aliasVars, WRITE_REDUX_CACHE,
                 dispatchLog, thunks, storageSetCalls, loggerCalls, reducedCount,
                 snapshots, alarm, lifecycleVars, eventVars, uiVars, codecVars>>

\* how often the alarm's handler has dispatched
AlarmFirings ==
  Cardinality({i \in DOMAIN dispatchLog :
                 dispatchLog[i].type = InitialLoadWaitExpired.handler})

\* the delay of the initialLoadWaitExpired alarm is over: its handler
\* dispatches initializationLoadingTimeHitLimit(); an alarm without a period
\* does not fire again
AlarmFires ==
  /\ alarm = "armed"
  /\ AlarmFirings < MaxAlarmFirings
  /\ \E s \in SetOutcomes :
       Commit(<<reduxCache(PlainAction(InitialLoadWaitExpired.handler, None), s)>>, 0)
  /\ alarm' = IF InitialLoadWaitExpired.periodInMinutes = None THEN "fired" ELSE "armed"
  /\ UNCHANGED <<aliasVars, WRITE_REDUX_CACHE, thunks, lifecycleVars, eventVars, uiVars, codecVars,
                 READ_REDUX_CACHE, blobState, createPc, createResult, factory,
                 factoryArgs, awaited, main, preloadedState, listeners, wiringPc,
                 serviceCalls, savedReduxState, accountsToTrack>>

(***************************************************************************)
(* main.ts: Main.internalStartService and Main.internalStopService.        *)
(***************************************************************************)
\* the services whose startService is called inside the Promise.all of
\* internalStartService, and whose stopService inside that of
\* internalStopService
StartedTogether == Services
StoppedTogether == Services

\* service.started() has resolved: the service finished its startService
ServiceStarted(svc) == svcStart[svc] = "done"

\* the owner of Main calls startService(): Main awaits the base class's
\* internalStartService
StartService ==
  /\ createResult = "resolved"
  /\ startPc = "idle"
  /\ startPc' = "superStart"
  /\ UNCHANGED <<startedChain, svcStart, stopPc, svcStop, aliasVars, storeVars, mainVars, eventVars, uiVars, codecVars>>

\* the base start is over: the started() chain is set up and left alone, the
\* five startService calls are made and Promise.all awaits them
StartServices ==
  /\ startPc = "superStart"
  /\ startedChain' = "awaitIndexingStarted"
  /\ svcStart' = [svc \in Services |->
                    IF svc \in StartedTogether THEN "pending" ELSE svcStart[svc]]
  /\ startPc' = "awaitAll"
  /\ UNCHANGED <<stopPc, svcStop, aliasVars, storeVars, mainVars, eventVars, uiVars, codecVars>>

\* the promise of one service's startService settles
ServiceStartSettles(svc, outcome) ==
  /\ svcStart[svc] = "pending"
  /\ svcStart' = [svcStart EXCEPT ![svc] = outcome]
  /\ UNCHANGED <<startPc, startedChain, stopPc, svcStop, aliasVars, storeVars, mainVars, eventVars, uiVars, codecVars>>

ServiceStartSettlesAny ==
  \E svc \in Services, outcome \in {"done", "failed"} : ServiceStartSettles(svc, outcome)

\* indexingService.started().then(async () => this.chainService.started()):
\* nothing awaits this promise and nothing hangs on it
StartedChainAdvances ==
  /\ \/ /\ startedChain = "awaitIndexingStarted"
        /\ ServiceStarted("indexing")
        /\ startedChain' = "awaitChainStarted"
     \/ /\ startedChain = "awaitChainStarted"
        /\ ServiceStarted("chain")
        /\ startedChain' = "resolved"
  /\ UNCHANGED <<startPc, svcStart, stopPc, svcStop, aliasVars, storeVars, mainVars, eventVars, uiVars, codecVars>>

\* a start that does not await the five startService calls before it goes on
StartAllUnawaited ==
  /\ startPc = "awaitAll"
  /\ startPc' = "portService"
  /\ UNCHANGED <<startedChain, svcStart, stopPc, svcStop, aliasVars, storeVars, mainVars,
                 eventVars, uiVars, codecVars>>

\* Promise.all resolves once every startService resolved: Main goes on to the
\* content script provider port service
StartAllResolved ==
  /\ startPc = "awaitAll"
  /\ \A svc \in StartedTogether : svcStart[svc] = "done"
  /\ startPc' = "portService"
  /\ UNCHANGED <<startedChain, svcStart, stopPc, svcStop, aliasVars, storeVars, mainVars, eventVars, uiVars, codecVars>>

\* Promise.all rejects as soon as one startService rejected
StartAllRejected ==
  /\ startPc = "awaitAll"
  /\ \E svc \in StartedTogether : svcStart[svc] = "failed"
  /\ startPc' = "failed"
  /\ UNCHANGED <<startedChain, svcStart, stopPc, svcStop, aliasVars, storeVars, mainVars, eventVars, uiVars, codecVars>>

\* dumbContentScriptProviderPortService resolved: Main's start is complete
PortServiceReady ==
  /\ startPc = "portService"
  /\ startPc' = "started"
  /\ UNCHANGED <<startedChain, svcStart, stopPc, svcStop, aliasVars, storeVars, mainVars, eventVars, uiVars, codecVars>>

\* the owner of Main calls stopService(): the five stopService calls are made
\* and Promise.all awaits them
StopService ==
  /\ startPc = "started"
  /\ stopPc = "idle"
  /\ svcStop' = [svc \in Services |->
                   IF svc \in StoppedTogether THEN "pending" ELSE svcStop[svc]]
  /\ stopPc' = "awaitAll"
  /\ UNCHANGED <<startPc, startedChain, svcStart, aliasVars, storeVars, mainVars, eventVars, uiVars, codecVars>>

\* the promise of one service's stopService settles
ServiceStopSettles(svc, outcome) ==
  /\ svcStop[svc] = "pending"
  /\ svcStop' = [svcStop EXCEPT ![svc] = outcome]
  /\ UNCHANGED <<startPc, startedChain, svcStart, stopPc, aliasVars, storeVars, mainVars, eventVars, uiVars, codecVars>>

ServiceStopSettlesAny ==
  \E svc \in Services, outcome \in {"done", "failed"} : ServiceStopSettles(svc, outcome)

\* Promise.all resolves once every stopService resolved: Main awaits the base
\* class's internalStopService
StopAllResolved ==
  /\ stopPc = "awaitAll"
  /\ \A svc \in StoppedTogether : svcStop[svc] = "done"
  /\ stopPc' = "superStop"
  /\ UNCHANGED <<startPc, startedChain, svcStart, svcStop, aliasVars, storeVars, mainVars, eventVars, uiVars, codecVars>>

\* Promise.all rejects as soon as one stopService rejected
StopAllRejected ==
  /\ stopPc = "awaitAll"
  /\ \E svc \in StoppedTogether : svcStop[svc] = "failed"
  /\ stopPc' = "failed"
  /\ UNCHANGED <<startPc, startedChain, svcStart, svcStop, aliasVars, storeVars, mainVars, eventVars, uiVars, codecVars>>

\* the base stop is over: Main's stop is complete
SuperStopDone ==
  /\ stopPc = "superStop"
  /\ stopPc' = "stopped"
  /\ UNCHANGED <<startPc, startedChain, svcStart, svcStop, aliasVars, storeVars, mainVars, eventVars, uiVars, codecVars>>

\* nothing of Main's lifecycle has begun
InitLifecycle ==
  /\ startPc = "idle"
  /\ startedChain = "none"
  /\ svcStart = [svc \in Services |-> "idle"]
  /\ stopPc = "idle"
  /\ svcStop = [svc \in Services |-> "idle"]

\* Main.create has just been called, in the environment given
MainCreateCalled(readFlag, blob, accounts) ==
  /\ READ_REDUX_CACHE = readFlag
  /\ blobState = blob
  /\ createPc = 1
  /\ createResult = "pending"
  /\ factory = [svc \in Services |-> "uninvoked"]
  /\ factoryArgs = [svc \in Services |-> << >>]
  /\ awaited = {}
  /\ main = "none"
  /\ preloadedState = None
  /\ listeners = << >>
  /\ wiringPc = "idle"
  /\ serviceCalls = << >>
  /\ savedReduxState = "{}"
  /\ accountsToTrack = accounts
  /\ alarm = "none"
  /\ InitLifecycle
  /\ emitted = << >>

\* Main.create resolved and the wiring finished, with no stored state read and
\* no account tracked; Main has not been started
MainConstructed ==
  /\ READ_REDUX_CACHE = "false"
  /\ blobState = "undefined"
  /\ createPc = Len(CreateSteps) + 1
  /\ createResult = "resolved"
  /\ factory = [svc \in Services |-> "resolved"]
  /\ factoryArgs = [svc \in Services |->
       CASE svc = "chain" -> <<"preference">>
         [] svc = "indexing" -> <<"preference", "chain">>
         [] svc = "name" -> <<"chain">>
         [] OTHER -> << >>]
  /\ awaited = Services
  /\ main = "constructed"
  /\ preloadedState = "{}"
  /\ listeners = Append(ListenersAtConstruction, <<"chain", "blockPrices">>)
  /\ wiringPc = "done"
  /\ serviceCalls = <<[svc |-> "chain", method |-> "getAccountsToTrack",
                       emitter |-> "wiring", event |-> "connectChainService"],
                      [svc |-> "chain", method |-> "pollBlockPrices",
                       emitter |-> "wiring", event |-> "connectChainService"]>>
  /\ savedReduxState = "{}"
  /\ accountsToTrack = << >>
  /\ alarm = "armed"
  /\ InitLifecycle
  /\ emitted = << >>

InitMain ==
  /\ allAliases = EmptyAliases
  /\ registerCalls = << >>
  /\ WRITE_REDUX_CACHE = "true"
  /\ dispatchLog = << >>
  /\ thunks = << >>
  /\ storageSetCalls = 0
  /\ unhandledRejections = [source \in RejectionSources |-> 0]
  /\ loggerCalls = 0
  /\ reducedCount = 0
  /\ snapshots = << >>
  /\ InitUi
  /\ InitCodec
  /\ \E readFlag \in FlagValues, blob \in BlobStates,
        accounts \in {<< >>} \cup {<<a>> : a \in TrackedAccounts} :
       MainCreateCalled(readFlag, blob, accounts)

NextMain ==
  \/ CreateStep
  \/ FactorySettlesAny
  \/ WiringContinues
  \/ WiringFails
  \/ AlarmFires
  \/ StartService
  \/ StartServices
  \/ ServiceStartSettlesAny
  \/ StartedChainAdvances
  \/ StartAllResolved
  \/ StartAllRejected
  \/ PortServiceReady
  \/ StopService
  \/ ServiceStopSettlesAny
  \/ StopAllResolved
  \/ StopAllRejected
  \/ SuperStopDone

SpecMain == InitMain /\ [][NextMain]_vars

\* the module as loaded: no thunk registered yet
InitAliases ==
  /\ allAliases = EmptyAliases
  /\ registerCalls = << >>
  /\ InitStore
  /\ InitUi
  /\ InitCodec
  /\ MainCreateCalled("false", "undefined", << >>)

NextAliases ==
  \/ Register
  \/ CallActionCreatorAny

SpecAliases == InitAliases /\ [][NextAliases]_vars

(***************************************************************************)
(* The store in use: the thunks were registered while the slice modules    *)
(* loaded, then actions are dispatched and operations settle.              *)
(***************************************************************************)
\* the registry after the calls `calls` were made in order
RECURSIVE AliasesAfter(_)
AliasesAfter(calls) ==
  IF calls = << >> THEN EmptyAliases
  ELSE LET before == AliasesAfter(SubSeq(calls, 1, Len(calls) - 1))
           c == calls[Len(calls)]
       IN IF AlreadyAliased(before, c.typePrefix) THEN before
          ELSE StoreAlias(before, c.typePrefix, c.payloadCreator, c.options)

\* what the slice modules register while loading: nothing, X alone, or X and
\* then Y, Y with or without a condition
ModuleLoadCalls ==
  LET Call(t, h, o) == [typePrefix |-> t, payloadCreator |-> h,
                        options |-> o, threw |-> FALSE]
  IN {<< >>, <<Call("X", "h1", "none")>>}
     \cup {<<Call("X", "h1", "none"), Call("Y", "h2", o)>> : o \in Options}

InitThunk ==
  /\ \E calls \in ModuleLoadCalls :
       /\ registerCalls = calls
       /\ allAliases = AliasesAfter(calls)
  /\ InitStore
  /\ InitUi
  /\ InitCodec
  /\ MainConstructed

NextThunk ==
  \/ DispatchAction
  \/ OperationSettles

SpecThunk == InitThunk /\ [][NextThunk]_vars

(***************************************************************************)
(* Properties of the alias registry, checked under SpecAliases.            *)
(***************************************************************************)
FirstCallFor(typePrefix) ==
  CHOOSE i \in DOMAIN registerCalls :
    /\ registerCalls[i].typePrefix = typePrefix
    /\ \A j \in 1..(i - 1) : registerCalls[j].typePrefix # typePrefix

\* C4: allAliases holds, for every typePrefix, at most the one handler stored
\* by the first createBackgroundAsyncThunk call for that prefix: every later
\* call with that prefix threw and changed nothing, and no entry stored by a
\* call is ever missing or replaced.
C4_RegistrationUnique ==
  /\ \A t \in DOMAIN allAliases :
       /\ \E i \in DOMAIN registerCalls : registerCalls[i].typePrefix = t
       /\ ~registerCalls[FirstCallFor(t)].threw
       /\ allAliases[t].payloadCreator = registerCalls[FirstCallFor(t)].payloadCreator
       /\ allAliases[t].options = registerCalls[FirstCallFor(t)].options
       /\ allAliases[t].typePrefix = t
  /\ \A i \in DOMAIN registerCalls :
       /\ ~registerCalls[i].threw => registerCalls[i].typePrefix \in DOMAIN allAliases
       /\ (\E j \in 1..(i - 1) :
             /\ registerCalls[j].typePrefix = registerCalls[i].typePrefix
             /\ ~registerCalls[j].threw)
          => registerCalls[i].threw

\* a second call for X with another payload creator threw, the first one stays
C4_Witness ==
  /\ Len(registerCalls) >= 2
  /\ registerCalls[1].typePrefix = "X" /\ registerCalls[1].payloadCreator = "h1"
  /\ registerCalls[2].typePrefix = "X" /\ registerCalls[2].payloadCreator = "h2"
  /\ registerCalls[2].threw
  /\ allAliases["X"].payloadCreator = "h1"

(***************************************************************************)
(* Properties of the thunk lifecycle and the cache, checked under          *)
(* SpecThunk.                                                              *)
(***************************************************************************)
\* the lifecycle actions of one invocation, in the order the store got them
Lifecycle(requestId) ==
  SelectSeq(dispatchLog,
            LAMBDA a : a.requestId = requestId /\ a.phase # "action")

\* the relayed action that started the invocation
RelayedCall(requestId) ==
  dispatchLog[CHOOSE i \in DOMAIN dispatchLog :
                /\ dispatchLog[i].requestId = requestId
                /\ dispatchLog[i].phase = "action"]

\* C1: every invocation that is not skipped has dispatched exactly one
\* Pending, followed once it settled by exactly one terminal action (Fulfilled
\* or Rejected) and by nothing else, whatever other invocations did in
\* between.
C1_OnePendingOneTerminal ==
  \A requestId \in DOMAIN thunks :
    LET t == thunks[requestId]
        life == Lifecycle(requestId)
    IN t.status # "skipped" =>
         /\ Len(life) >= 1
         /\ life[1].phase = "pending"
         /\ IF t.status \in {"fulfilled", "rejected"}
              THEN Len(life) = 2 /\ life[2].phase = t.status
              ELSE t.status = "running" /\ Len(life) = 1

\* two invocations whose Pending/terminal pairs interleave
C1_Witness ==
  /\ Len(thunks) = 2
  /\ thunks[1].status = "fulfilled" /\ thunks[2].status = "rejected"
  /\ Len(dispatchLog) = 6
  /\ dispatchLog[2].phase = "pending" /\ dispatchLog[2].requestId = 1
  /\ dispatchLog[4].phase = "pending" /\ dispatchLog[4].requestId = 2
  /\ dispatchLog[5].phase = "rejected" /\ dispatchLog[5].requestId = 2
  /\ dispatchLog[6].phase = "fulfilled" /\ dispatchLog[6].requestId = 1

\* C2: when a relayed action {type X, payload arg} of a registered type ran
\* the operation and the operation resolved to r, the registered payload
\* creator was invoked with arg and the store received for that invocation
\* exactly Pending(X, arg) then Fulfilled(X, arg, r).
C2_FulfilledSequence ==
  \A requestId \in DOMAIN thunks :
    LET t == thunks[requestId]
        life == Lifecycle(requestId)
        call == RelayedCall(requestId)
    IN t.status = "fulfilled" =>
         /\ t.arg = call.payload
         /\ t.payloadCreator = allAliases[call.type].payloadCreator
         /\ t.outcome \in Results
         /\ Len(life) = 2
         /\ life[1] = [pending(call.type, requestId, call.payload)
                         EXCEPT !.reduced = TRUE, !.writes = life[1].writes]
         /\ life[2] = [fulfilled(call.type, t.outcome, requestId, call.payload)
                         EXCEPT !.reduced = TRUE, !.writes = life[2].writes]

C2_Witness ==
  \E requestId \in DOMAIN thunks :
    /\ thunks[requestId].status = "fulfilled"
    /\ thunks[requestId].typePrefix = "Y"
    /\ thunks[requestId].arg = "a2"
    /\ thunks[requestId].outcome = "5"

\* C3: when the operation of a relayed action {type X, payload arg} threw or
\* rejected with e, the store received for that invocation exactly
\* Pending(X, arg) then Rejected(X, arg, e), the promise returned through
\* dispatch resolved, and no rejection was left without a handler.
C3_RejectedSequence ==
  /\ unhandledRejections["operation"] = 0
  /\ \A requestId \in DOMAIN thunks :
       LET t == thunks[requestId]
           life == Lifecycle(requestId)
           call == RelayedCall(requestId)
       IN t.status = "rejected" =>
            /\ t.arg = call.payload
            /\ t.outcome \in Reasons
            /\ t.promise = "resolved"
            /\ Len(life) = 2
            /\ life[1] = [pending(call.type, requestId, call.payload)
                            EXCEPT !.reduced = TRUE, !.writes = life[1].writes]
            /\ life[2] = [rejected(call.type, t.outcome, requestId, call.payload)
                            EXCEPT !.reduced = TRUE, !.writes = life[2].writes]

\* one operation threw before returning, another rejected later
C3_Witness ==
  /\ Len(thunks) = 2
  /\ thunks[1].status = "rejected" /\ thunks[1].outcome = "boom"
  /\ thunks[2].status = "rejected"
  /\ Len(dispatchLog) = 6
  /\ dispatchLog[3].phase = "rejected" /\ dispatchLog[3].requestId = 1
  /\ dispatchLog[6].phase = "rejected" /\ dispatchLog[6].requestId = 2

RejectedSets == RejectedSetsOf(dispatchLog)

\* C8: every persistence write that failed was logged, and none of them left
\* a rejection without a handler.
C8_WriteFailureLogged ==
  /\ loggerCalls >= RejectedSets
  /\ unhandledRejections["storageSet"] = 0

\* C9 as claimed: with the flag off nothing is written, with the flag on every
\* dispatch on the store, that of an aliased action type included, makes
\* exactly one write attempt.
C9_OneWritePerDispatch ==
  IF WRITE_REDUX_CACHE # "true"
    THEN storageSetCalls = 0
    ELSE \A i \in DOMAIN dispatchLog : Len(dispatchLog[i].writes) = 1

IsAliasedCall(a) == a.phase = "action" /\ a.type \in DOMAIN allAliases

\* C9 as amended: with the flag off nothing is written; with the flag on every
\* dispatch that reaches the reducers (an action of a type that is not
\* aliased, and each lifecycle action of a thunk) makes exactly one write
\* attempt, and the dispatch of an aliased action type, which the thunk
\* middleware consumes, makes none of its own.
C9_OneWritePerReducedAction ==
  /\ \A i \in DOMAIN dispatchLog :
       /\ dispatchLog[i].reduced <=> ~IsAliasedCall(dispatchLog[i])
       /\ Len(dispatchLog[i].writes) =
            IF WRITE_REDUX_CACHE = "true" /\ dispatchLog[i].reduced THEN 1 ELSE 0
  /\ storageSetCalls = SetCallsOf(dispatchLog)
  /\ WRITE_REDUX_CACHE # "true" => storageSetCalls = 0

\* the flag is on; a relayed action wrote nothing itself, its two lifecycle
\* actions and a plain action wrote once each
C9_Witness ==
  /\ WRITE_REDUX_CACHE = "true"
  /\ Len(dispatchLog) = 4
  /\ IsAliasedCall(dispatchLog[1]) /\ dispatchLog[1].writes = << >>
  /\ \E i \in DOMAIN dispatchLog :
       dispatchLog[i].phase = "action" /\ dispatchLog[i].type = "plain"
  /\ storageSetCalls = 3

(***************************************************************************)
(* main.ts: the listeners Main attaches in connectChainService,            *)
(* connectIndexingService, connectKeyringService and connectNameService.   *)
(***************************************************************************)
\* a gasUsed test that asks for a truthy value
IsConfirmedTruthyGas(transaction) ==
  /\ transaction.blockHash \notin {"undefined", "null", ""}
  /\ transaction.gasUsed \notin {"absent", "undefined", "0"}

\* transaction.blockHash && "gasUsed" in transaction &&
\* transaction.gasUsed !== undefined
IsConfirmed(transaction) ==
  /\ transaction.blockHash \notin {"undefined", "null", ""}
  /\ transaction.gasUsed # "absent"
  /\ transaction.gasUsed # "undefined"

\* the payloads of the chain service's events
TransactionPayloads ==
  {[transaction |-> [hash |-> "0x1", blockHash |-> b, gasUsed |-> g],
    forAccounts |-> "0xA"] : b \in BlockHashes, g \in GasUsedValues}

ChainPayloads(event) ==
  CASE event = "transaction" -> TransactionPayloads
    [] event = "accountBalance" -> {[address |-> "0xA", amount |-> "1"]}
    [] event = "block" -> {[hash |-> "0xb1", blockHeight |-> "1"]}
    [] event = "blockPrices" -> {[blockNumber |-> "1", baseFeePerGas |-> "7"]}

\* the actions the listener of a chain service event dispatches, in order
OnChainEvent(event, payload) ==
  CASE event = "accountBalance" ->
         <<PlainAction("account/updateAccountBalance", payload)>>
    [] event = "transaction" ->
         <<IF IsConfirmed(payload.transaction)
             THEN PlainAction("account/transactionConfirmed", payload.transaction)
             ELSE PlainAction("account/transactionSeen", payload.transaction),
           PlainAction("activities/activityEncountered", payload)>>
    [] event = "block" ->
         <<PlainAction("account/blockSeen", payload)>>
    [] event = "blockPrices" ->
         <<PlainAction("transaction-construction/gasEstimates", payload)>>

\* the payloads of the indexing service's events
IndexingPayloads(event) ==
  CASE event = "accountBalance" -> {[address |-> "0xA", amount |-> "2"]}
    [] event = "assets" -> {[symbol |-> "DAI"]}
    [] event = "price" -> {[pair |-> "ETH/USD", amount |-> "3"]}

\* indexing listeners of which the price listener dispatches nothing
OnIndexingEventPriceDropped(event, payload) ==
  CASE event = "accountBalance" ->
         <<PlainAction("account/updateAccountBalance", payload)>>
    [] event = "assets" -> <<PlainAction("assets/assetsLoaded", payload)>>
    [] event = "price" -> << >>

\* the actions the listener of an indexing service event dispatches
OnIndexingEvent(event, payload) ==
  CASE event = "accountBalance" ->
         <<PlainAction("account/updateAccountBalance", payload)>>
    [] event = "assets" -> <<PlainAction("assets/assetsLoaded", payload)>>
    [] event = "price" -> <<PlainAction("prices/newPricePoint", payload)>>

\* the payloads of the name service's events; an avatar is a URL object
NamePayloads(event) ==
  CASE event = "resolvedName" ->
         {[from |-> [addressNetwork |-> [address |-> "0xA", network |-> "ethereum"]],
           resolved |-> [name |-> "a.eth"]]}
    [] event = "resolvedAvatar" ->
         {[from |-> [addressNetwork |-> [address |-> "0xA", network |-> "ethereum"]],
           resolved |-> [avatar |-> [href |-> "https://a/x.png"]]]}

\* the actions the listener of a name service event dispatches:
\* {...addressNetwork, name} and {...addressNetwork, avatar: avatar.toString()}
OnNameEvent(event, payload) ==
  LET addressNetwork == payload.from.addressNetwork
  IN CASE event = "resolvedName" ->
            <<PlainAction("account/updateENSName",
                [address |-> addressNetwork.address, network |-> addressNetwork.network,
                 name |-> payload.resolved.name])>>
       [] event = "resolvedAvatar" ->
            <<PlainAction("account/updateENSAvatar",
                [address |-> addressNetwork.address, network |-> addressNetwork.network,
                 avatar |-> payload.resolved.avatar.href])>>

\* the payloads of the keyring service's events
KeyringPayloads(event) ==
  CASE event = "keyrings" -> {[keyrings |-> "k1"]}
    [] event = "address" -> {[address |-> "0xB"]}
    [] event = "signedTx" -> {[hash |-> "0x2", r |-> "r", s |-> "s", v |-> "v"]}

\* the actions the listener of a keyring service event dispatches: only the
\* keyrings listener dispatches
OnKeyringEvent(event, payload) ==
  CASE event = "keyrings" -> <<PlainAction("keyrings/updateKeyrings", payload)>>
    [] event = "address" -> << >>
    [] event = "signedTx" -> << >>

\* the options the listener of updateOptions requires to be defined
RequiredOptions == {"from", "gasLimit", "maxFeePerGas", "maxPriorityFeePerGas", "value"}
\* transaction options with every required field defined
FullOptions ==
  [from |-> "0xA", gasLimit |-> "21000", maxFeePerGas |-> "2",
   maxPriorityFeePerGas |-> "1", value |-> "1"]

\* the payloads of the events the slices raise on their emitters
SlicePayloads(emitter, event) ==
  CASE event = "addAccount" -> {[address |-> "0xC", network |-> "ethereum"]}
    [] event = "updateOptions" ->
         {FullOptions}
           \cup {[FullOptions EXCEPT ![field] = "undefined"] : field \in RequiredOptions}
    [] event = "unlockKeyring" -> {[password |-> "pw"]}
    [] event = "generateNewKeyring" -> {[none |-> None]}
    [] event = "importLegacyKeyring" -> {[mnemonic |-> "m"]}

\* a call Main makes into a service, and the listener or method it is made in
ServiceCall(svc, method, emitter, event) ==
  [svc |-> svc, method |-> method, emitter |-> emitter, event |-> event]

\* where a listener's awaited calls can fail
FailurePoints(emitter, event) ==
  CASE emitter = "keyring" /\ event = "signedTx" -> {None, "sendTransaction"}
    [] emitter = "transactionSlice" /\ event = "updateOptions" ->
         {None, "getTransactionCount", "getGasPrice", "estimateGasLimit", "signTransaction"}
    [] emitter = "keyringSlice" /\ event = "unlockKeyring" -> {None, "unlock"}
    [] OTHER -> {None}

\* a listener of updateOptions that only requires the from option
AwaitedCallsChecksFromOnly(emitter, event, payload) ==
  IF emitter = "transactionSlice" /\ event = "updateOptions"
    THEN IF payload.from = "undefined"
           THEN << >>
           ELSE <<ServiceCall("chain", "getTransactionCount", emitter, event),
                  ServiceCall("chain", "getGasPrice", emitter, event),
                  ServiceCall("chain", "estimateGasLimit", emitter, event),
                  ServiceCall("keyring", "signTransaction", emitter, event)>>
    ELSE IF emitter = "keyring" /\ event = "signedTx"
      THEN <<ServiceCall("chain", "sendTransaction", emitter, event)>>
    ELSE IF emitter = "accountSlice" /\ event = "addAccount"
      THEN <<ServiceCall("chain", "addAccountToTrack", emitter, event)>>
    ELSE IF emitter = "keyringSlice"
      THEN <<ServiceCall("keyring", IF event = "unlockKeyring" THEN "unlock" ELSE event,
                         emitter, event)>>
    ELSE << >>

\* the calls a listener awaits one after the other
AwaitedCalls(emitter, event, payload) ==
  CASE emitter = "keyring" /\ event = "signedTx" ->
         <<ServiceCall("chain", "sendTransaction", emitter, event)>>
    [] emitter = "accountSlice" /\ event = "addAccount" ->
         <<ServiceCall("chain", "addAccountToTrack", emitter, event)>>
    [] emitter = "transactionSlice" /\ event = "updateOptions" ->
         IF \E field \in RequiredOptions : payload[field] = "undefined"
           THEN << >>
           ELSE <<ServiceCall("chain", "getTransactionCount", emitter, event),
                  ServiceCall("chain", "getGasPrice", emitter, event),
                  ServiceCall("chain", "estimateGasLimit", emitter, event),
                  ServiceCall("keyring", "signTransaction", emitter, event)>>
    [] emitter = "keyringSlice" /\ event = "unlockKeyring" ->
         <<ServiceCall("keyring", "unlock", emitter, event)>>
    [] emitter = "keyringSlice" /\ event = "generateNewKeyring" ->
         <<ServiceCall("keyring", "generateNewKeyring", emitter, event)>>
    [] emitter = "keyringSlice" /\ event = "importLegacyKeyring" ->
         <<ServiceCall("keyring", "importLegacyKeyring", emitter, event)>>
    [] OTHER -> << >>

\* listeners of which the keyrings listener also unlocks the keyring
CallsOnEventKeyringsUnlocks(emitter, event, payload, failAt) ==
  IF emitter = "keyring" /\ event \in {"address", "keyrings"}
    THEN <<ServiceCall(IF event = "address" THEN "chain" ELSE "keyring",
                       IF event = "address" THEN "addAccountToTrack" ELSE "unlock",
                       emitter, event)>>
    ELSE LET calls == AwaitedCalls(emitter, event, payload)
             failed == {i \in DOMAIN calls : calls[i].method = failAt}
         IN IF failed = {} THEN calls
            ELSE SubSeq(calls, 1, CHOOSE i \in failed : TRUE)

\* the calls one run of a listener makes into the services: those it awaits,
\* up to the one that fails, or the one call it does not await
CallsOnEvent(emitter, event, payload, failAt) ==
  IF emitter = "keyring" /\ event = "address"
    THEN <<ServiceCall("chain", "addAccountToTrack", emitter, event)>>
    ELSE LET calls == AwaitedCalls(emitter, event, payload)
             failed == {i \in DOMAIN calls : calls[i].method = failAt}
         IN IF failed = {} THEN calls
            ELSE SubSeq(calls, 1, CHOOSE i \in failed : TRUE)

\* whether that run ends in a rejection; no listener's promise has a handler
ListenerRejects(emitter, event, payload, failAt) ==
  \E i \in DOMAIN AwaitedCalls(emitter, event, payload) :
    AwaitedCalls(emitter, event, payload)[i].method = failAt

\* the logger.log calls of one run of a listener
LogsOnEvent(emitter, event, payload, failAt) ==
  IF emitter = "keyring" /\ event = "signedTx" /\ failAt = None THEN 2 ELSE 0

\* the actions one run of a listener dispatches
OnEvent(emitter, event, payload) ==
  CASE emitter = "chain" -> OnChainEvent(event, payload)
    [] emitter = "indexing" -> OnIndexingEvent(event, payload)
    [] emitter = "name" -> OnNameEvent(event, payload)
    [] emitter = "keyring" -> OnKeyringEvent(event, payload)
    [] OTHER -> << >>

Listening(emitter, event) ==
  \E i \in DOMAIN listeners : listeners[i] = <<emitter, event>>

\* how many listeners Main attached to the event
ListenerCount(emitter, event) ==
  Cardinality({i \in DOMAIN listeners : listeners[i] = <<emitter, event>>})

RECURSIVE Times(_, _)
Times(n, seq) == IF n = 0 THEN << >> ELSE seq \o Times(n - 1, seq)

\* an emitter raises an event: every listener Main attached to it runs
Emits(emitter, event, payload, failAt) ==
  /\ Len(emitted) < MaxEvents
  /\ LET n == ListenerCount(emitter, event)
         actions == Times(n, OnEvent(emitter, event, payload))
         calls == Times(n, CallsOnEvent(emitter, event, payload, failAt))
         rejections == IF ListenerRejects(emitter, event, payload, failAt) THEN n ELSE 0
     IN /\ IF actions # << >>
             THEN \E outcomes \in [DOMAIN actions -> SetOutcomes] :
                    Commit([i \in DOMAIN actions |-> reduxCache(actions[i], outcomes[i])], 0)
             ELSE /\ loggerCalls' = loggerCalls + n * LogsOnEvent(emitter, event, payload, failAt)
                  /\ unhandledRejections' =
                       [unhandledRejections EXCEPT !["listener"] = @ + rejections]
                  /\ UNCHANGED <<dispatchLog, storageSetCalls, reducedCount, snapshots>>
        /\ serviceCalls' = serviceCalls \o calls
        /\ emitted' = Append(emitted,
             [emitter |-> emitter, event |-> event, payload |-> payload,
              at |-> Len(dispatchLog), dispatches |-> Len(actions),
              callsAt |-> Len(serviceCalls), calls |-> Len(calls),
              failed |-> IF n > 0 /\ ListenerRejects(emitter, event, payload, failAt)
                           THEN failAt ELSE None,
              listeners |-> n])
  /\ UNCHANGED <<aliasVars, WRITE_REDUX_CACHE, thunks, lifecycleVars, uiVars, codecVars,
                 READ_REDUX_CACHE, blobState, createPc, createResult, factory,
                 factoryArgs, awaited, main, preloadedState, listeners, wiringPc,
                 savedReduxState, accountsToTrack, alarm>>

\* the chain service emits an event
ChainEmits(event, payload) == Emits("chain", event, payload, None)

ChainEmitsAny ==
  \E event \in {"accountBalance", "transaction", "block", "blockPrices"} :
    \E payload \in ChainPayloads(event) : ChainEmits(event, payload)

\* the indexing service emits an event
IndexingEmitsAny ==
  \E event \in {"accountBalance", "assets", "price"} :
    \E payload \in IndexingPayloads(event) : Emits("indexing", event, payload, None)

\* the name service emits an event
NameEmitsAny ==
  \E event \in {"resolvedName", "resolvedAvatar"} :
    \E payload \in NamePayloads(event) : Emits("name", event, payload, None)

\* the keyring service emits an event
KeyringEmitsAny ==
  \E event \in {"keyrings", "address", "signedTx"} :
    \E payload \in KeyringPayloads(event), failAt \in FailurePoints("keyring", event) :
      Emits("keyring", event, payload, failAt)

\* a slice raises an event on its emitter
SliceEmitsAny ==
  \E pair \in {<<"accountSlice", "addAccount">>, <<"transactionSlice", "updateOptions">>,
               <<"keyringSlice", "unlockKeyring">>, <<"keyringSlice", "generateNewKeyring">>,
               <<"keyringSlice", "importLegacyKeyring">>} :
    \E payload \in SlicePayloads(pair[1], pair[2]), failAt \in FailurePoints(pair[1], pair[2]) :
      Emits(pair[1], pair[2], payload, failAt)

\* Main is constructed and wired, one thunk of the slices is registered
InitEvents ==
  /\ \E calls \in ModuleLoadCalls :
       /\ Len(calls) = 1
       /\ registerCalls = calls
       /\ allAliases = AliasesAfter(calls)
  /\ InitStore
  /\ InitUi
  /\ InitCodec
  /\ MainConstructed

\* the listeners one call of a connect method attaches; connectChainService
\* and initializeRedux, which are public as well, attach theirs the same way
ListenersOf(method) ==
  CASE method = "connectIndexingService" ->
         <<<<"indexing", "accountBalance">>, <<"indexing", "assets">>,
           <<"indexing", "price">>>>
    [] method = "connectKeyringService" ->
         <<<<"keyring", "keyrings">>, <<"keyring", "address">>, <<"keyring", "signedTx">>,
           <<"keyringSlice", "unlockKeyring">>, <<"keyringSlice", "generateNewKeyring">>,
           <<"keyringSlice", "importLegacyKeyring">>>>
    [] method = "connectNameService" ->
         <<<<"name", "resolvedName">>, <<"name", "resolvedAvatar">>>>

\* a holder of the Main instance calls one of its connect methods
Connect(method) ==
  /\ main = "constructed"
  /\ Len(connectCalls) < MaxConnectCalls
  /\ listeners' = listeners \o ListenersOf(method)
  /\ connectCalls' = Append(connectCalls, method)
  /\ UNCHANGED <<codecVars, aliasVars, storeVars, lifecycleVars, eventVars, dispatched,
                 returnedAction, READ_REDUX_CACHE, blobState, createPc, createResult,
                 factory, factoryArgs, awaited, main, preloadedState, wiringPc,
                 serviceCalls, savedReduxState, accountsToTrack, alarm>>

ConnectAny ==
  \E method \in {"connectIndexingService", "connectKeyringService",
                  "connectNameService"} : Connect(method)

\* the constructor of Main has just returned: initializeRedux stands at the
\* await of getAccountsToTrack
MainJustConstructed(accounts) ==
  /\ READ_REDUX_CACHE = "false"
  /\ blobState = "undefined"
  /\ createPc = Len(CreateSteps) + 1
  /\ createResult = "resolved"
  /\ factory = [svc \in Services |-> "resolved"]
  /\ factoryArgs = [svc \in Services |->
       CASE svc = "chain" -> <<"preference">>
         [] svc = "indexing" -> <<"preference", "chain">>
         [] svc = "name" -> <<"chain">>
         [] OTHER -> << >>]
  /\ awaited = Services
  /\ main = "constructed"
  /\ preloadedState = "{}"
  /\ listeners = ListenersAtConstruction
  /\ wiringPc = "awaitAccounts"
  /\ serviceCalls = <<[svc |-> "chain", method |-> "getAccountsToTrack",
                       emitter |-> "wiring", event |-> "connectChainService"]>>
  /\ savedReduxState = "{}"
  /\ accountsToTrack = accounts
  /\ alarm = "armed"
  /\ InitLifecycle
  /\ emitted = << >>

InitWiring ==
  /\ \E calls \in ModuleLoadCalls :
       /\ Len(calls) = 1
       /\ registerCalls = calls
       /\ allAliases = AliasesAfter(calls)
  /\ InitStore
  /\ InitUi
  /\ InitCodec
  /\ \E accounts \in {<< >>} \cup {<<a>> : a \in TrackedAccounts} :
       MainJustConstructed(accounts)

\* the wiring goes on while holders of the instance call its connect methods
NextWiring ==
  \/ WiringContinues
  \/ WiringFails
  \/ ConnectAny

SpecWiring == InitWiring /\ [][NextWiring]_vars

\* the wiring goes on while the keyring service and the slices raise events
NextCallbacks ==
  \/ WiringContinues
  \/ WiringFails
  \/ KeyringEmitsAny
  \/ SliceEmitsAny

SpecCallbacks == InitWiring /\ [][NextCallbacks]_vars

\* the wiring goes on while the chain service emits its events
NextListening ==
  \/ WiringContinues
  \/ WiringFails
  \/ ChainEmitsAny

SpecListening == InitWiring /\ [][NextListening]_vars

NextEvents ==
  \/ ChainEmitsAny
  \/ IndexingEmitsAny
  \/ NameEmitsAny
  \/ KeyringEmitsAny

SpecEvents == InitEvents /\ [][NextEvents]_vars

(***************************************************************************)
(* Properties of Main's creation, start and stop, checked under SpecMain.  *)
(***************************************************************************)
\* C5: the five startService calls are made together, and the chain
\* service's start does not complete, nor does Main's start go on, before the
\* indexing service's started signal.
C5_ChainStartAwaitsIndexingStarted ==
  /\ (\E svc \in Services : svcStart[svc] # "idle")
       => (\A svc \in Services : svcStart[svc] # "idle")
  /\ svcStart["chain"] = "done" => ServiceStarted("indexing")
  /\ startPc \in {"portService", "started"} => ServiceStarted("indexing")

\* C6: the five stopService calls are made together, and Main's stop has
\* completed or failed only after each of the five has settled.
C6_StoppedOnlyAfterAllSettled ==
  /\ (\E svc \in Services : svcStop[svc] # "idle")
       => (\A svc \in Services : svcStop[svc] # "idle")
  /\ stopPc \in {"superStop", "stopped", "failed"}
       => (\A svc \in Services : svcStop[svc] \in {"done", "failed"})

C10_TransactionMapping ==
  \A i \in DOMAIN emitted :
    LET e == emitted[i]
        tx == e.payload.transaction
    IN (e.emitter = "chain" /\ e.event = "transaction") =>
         /\ e.dispatches = 2
         /\ Len(dispatchLog) >= e.at + 2
         /\ dispatchLog[e.at + 1].type =
              IF tx.blockHash = "0xb1" /\ tx.gasUsed \in {"0", "21000"}
                THEN "account/transactionConfirmed"
                ELSE "account/transactionSeen"
         /\ dispatchLog[e.at + 1].payload = tx
         /\ dispatchLog[e.at + 1].reduced
         /\ dispatchLog[e.at + 2].type = "activities/activityEncountered"
         /\ dispatchLog[e.at + 2].payload = e.payload
         /\ dispatchLog[e.at + 2].reduced

\* a mined transaction with gasUsed 21000 was confirmed, one with no block
\* hash was seen, and both were followed by activityEncountered
C10_Witness ==
  /\ Len(emitted) = 2
  /\ emitted[1].event = "transaction"
  /\ emitted[1].payload.transaction.blockHash = "0xb1"
  /\ emitted[1].payload.transaction.gasUsed = "21000"
  /\ emitted[2].event = "transaction"
  /\ emitted[2].payload.transaction.blockHash = "undefined"
  /\ emitted[2].payload.transaction.gasUsed = "21000"
  /\ Len(dispatchLog) = 4
  /\ dispatchLog[1].type = "account/transactionConfirmed"
  /\ dispatchLog[2].type = "activities/activityEncountered"
  /\ dispatchLog[3].type = "account/transactionSeen"
  /\ dispatchLog[4].type = "activities/activityEncountered"

\* the services whose event vocabulary Main consumes
ServiceEmitters == {"chain", "indexing", "keyring", "name"}

\* the type and payload of the actions dispatched for an emitted event
DispatchedFor(e) ==
  [i \in 1..e.dispatches |->
     [type |-> dispatchLog[e.at + i].type, payload |-> dispatchLog[e.at + i].payload]]

\* the type of the last action a listener is to dispatch for its event
LastTypeFor(emitter, event) ==
  CASE emitter = "chain" /\ event = "accountBalance" -> "account/updateAccountBalance"
    [] emitter = "chain" /\ event = "transaction" -> "activities/activityEncountered"
    [] emitter = "chain" /\ event = "block" -> "account/blockSeen"
    [] emitter = "chain" /\ event = "blockPrices" -> "transaction-construction/gasEstimates"
    [] emitter = "indexing" /\ event = "accountBalance" -> "account/updateAccountBalance"
    [] emitter = "indexing" /\ event = "assets" -> "assets/assetsLoaded"
    [] emitter = "indexing" /\ event = "price" -> "prices/newPricePoint"
    [] emitter = "keyring" /\ event = "keyrings" -> "keyrings/updateKeyrings"
    [] emitter = "name" /\ event = "resolvedName" -> "account/updateENSName"
    [] emitter = "name" /\ event = "resolvedAvatar" -> "account/updateENSAvatar"
    [] OTHER -> None

\* C11 as claimed: every event of the four services' vocabularies made its
\* listener dispatch one or more actions on the store.
C11_EveryEventDispatches ==
  \A i \in DOMAIN emitted :
    emitted[i].emitter \in ServiceEmitters => emitted[i].dispatches >= 1

\* C11 as amended: every event of the four services' vocabularies other than
\* the keyring service's address and signedTx made its listener dispatch one
\* or more actions, the last of the type that belongs to the event, all of
\* them reduced, and two events with the same payload led to the same
\* actions; the listeners of address and signedTx dispatched nothing, and the
\* address listener called the chain service's addAccountToTrack.
C11_EventsDispatchExceptAddressAndSignedTx ==
  /\ \A i \in DOMAIN emitted :
       LET e == emitted[i]
       IN e.emitter \in ServiceEmitters =>
            IF e.emitter = "keyring" /\ e.event \in {"address", "signedTx"}
              THEN /\ e.dispatches = 0
                   /\ e.event = "address" => e.calls = 1
              ELSE /\ e.dispatches >= 1
                   /\ Len(dispatchLog) >= e.at + e.dispatches
                   /\ DispatchedFor(e)[e.dispatches].type = LastTypeFor(e.emitter, e.event)
                   /\ \A k \in 1..e.dispatches : dispatchLog[e.at + k].reduced
  /\ \A i, j \in DOMAIN emitted :
       (/\ emitted[i].emitter \in ServiceEmitters
        /\ emitted[i].emitter = emitted[j].emitter
        /\ emitted[i].event = emitted[j].event
        /\ emitted[i].payload = emitted[j].payload)
         => DispatchedFor(emitted[i]) = DispatchedFor(emitted[j])
  /\ Len(dispatchLog) =
       IF emitted = << >> THEN 0
       ELSE emitted[Len(emitted)].at + emitted[Len(emitted)].dispatches

\* the keyring service emitted address, which dispatched nothing and called
\* the chain service, and the indexing service emitted price, which dispatched
\* newPricePoint
C11_Witness ==
  /\ Len(emitted) = 2
  /\ emitted[1].emitter = "keyring" /\ emitted[1].event = "address"
  /\ emitted[1].dispatches = 0
  /\ serviceCalls[Len(serviceCalls)].method = "addAccountToTrack"
  /\ emitted[2].emitter = "indexing" /\ emitted[2].event = "price"
  /\ Len(dispatchLog) = 1
  /\ dispatchLog[1].type = "prices/newPricePoint"

(***************************************************************************)
(* Properties of the wiring, checked under SpecWiring.                     *)
(***************************************************************************)
\* the events of the services that Main consumes
ConsumedVocabulary ==
  {<<"chain", "accountBalance">>, <<"chain", "transaction">>, <<"chain", "block">>,
   <<"chain", "blockPrices">>,
   <<"indexing", "accountBalance">>, <<"indexing", "assets">>, <<"indexing", "price">>,
   <<"keyring", "keyrings">>, <<"keyring", "address">>, <<"keyring", "signedTx">>,
   <<"name", "resolvedName">>, <<"name", "resolvedAvatar">>}

\* C12: every (service, event) pair of the consumed vocabulary has at most one
\* listener attached by Main, and exactly one once the wiring has finished,
\* whatever public methods of Main were called.
C12_OneListenerPerEvent ==
  \A pair \in ConsumedVocabulary :
    /\ ListenerCount(pair[1], pair[2]) <= 1
    /\ wiringPc = "done" => ListenerCount(pair[1], pair[2]) = 1

\* C22: once Main.create has resolved a listener is registered for every
\* event of the consumed vocabulary, the chain service's blockPrices included,
\* so that no event emitted after construction goes without a listener.
C22_NoEventDroppedAfterCreate ==
  /\ createResult = "resolved" =>
       \A pair \in ConsumedVocabulary : Listening(pair[1], pair[2])
  /\ \A i \in DOMAIN emitted : emitted[i].listeners > 0

\* the emitters of the slices, on the store's side
SliceEmitters == {"accountSlice", "transactionSlice", "keyringSlice"}

\* the methods of the chain and keyring services the claim is about
CallbackMethods ==
  {"addAccountToTrack", "getLatestBaseAccountBalance", "unlock",
   "generateNewKeyring", "importLegacyKeyring", "signTransaction"}

\* the calls made so far of one method
CallsOf(method) ==
  {i \in DOMAIN serviceCalls : serviceCalls[i].method = method}

\* C20 as claimed: every call of addAccountToTrack, getLatestBaseAccountBalance,
\* unlock, generateNewKeyring, importLegacyKeyring and signTransaction was made
\* by the listener of a slice emitter event, none by the listener of a service
\* event and none by the wiring itself.
C20_CallbacksOnlyFromSliceEvents ==
  \A i \in DOMAIN serviceCalls :
    serviceCalls[i].method \in CallbackMethods
      => serviceCalls[i].emitter \in SliceEmitters

\* C20 as amended: unlock, generateNewKeyring, importLegacyKeyring and
\* signTransaction are called only by the listeners of the slice events
\* unlockKeyring, generateNewKeyring, importLegacyKeyring and updateOptions;
\* addAccountToTrack is called by the listener of the account slice's
\* addAccount event and by the listener of the keyring service's address
\* event; getLatestBaseAccountBalance is called only by the wiring, once for
\* each account the chain service tracked when connectChainService went on.
C20_CallbacksFromSliceEventsAddressAndWiring ==
  /\ \A i \in DOMAIN serviceCalls :
       LET c == serviceCalls[i]
       IN /\ c.method = "unlock" =>
               c.emitter = "keyringSlice" /\ c.event = "unlockKeyring"
          /\ c.method = "generateNewKeyring" =>
               c.emitter = "keyringSlice" /\ c.event = "generateNewKeyring"
          /\ c.method = "importLegacyKeyring" =>
               c.emitter = "keyringSlice" /\ c.event = "importLegacyKeyring"
          /\ c.method = "signTransaction" =>
               c.emitter = "transactionSlice" /\ c.event = "updateOptions"
          /\ c.method = "addAccountToTrack" =>
               \/ c.emitter = "accountSlice" /\ c.event = "addAccount"
               \/ c.emitter = "keyring" /\ c.event = "address"
          /\ c.method = "getLatestBaseAccountBalance" => c.emitter = "wiring"
  /\ Cardinality(CallsOf("getLatestBaseAccountBalance")) =
       IF wiringPc = "done" THEN Len(accountsToTrack) ELSE 0
  /\ Cardinality({i \in DOMAIN serviceCalls : serviceCalls[i].emitter # "wiring"}) =
       Cardinality({<<i, k>> \in (DOMAIN emitted) \X (1..4) : k <= emitted[i].calls})
  /\ \A i \in DOMAIN emitted :
       /\ (emitted[i].emitter = "keyring" /\ emitted[i].event = "keyrings")
            => emitted[i].calls = 0
       /\ (emitted[i].emitter = "keyring" /\ emitted[i].event = "address")
            => emitted[i].calls = 1

\* the wiring refreshed the balance of a tracked account, then the keyring
\* service's address event and the account slice's addAccount event each made
\* Main call addAccountToTrack
C20_Witness ==
  /\ wiringPc = "done"
  /\ Cardinality(CallsOf("getLatestBaseAccountBalance")) = 1
  /\ Len(emitted) = 2
  /\ emitted[1].emitter = "keyring" /\ emitted[1].event = "address"
  /\ emitted[2].emitter = "accountSlice" /\ emitted[2].event = "addAccount"
  /\ Cardinality(CallsOf("addAccountToTrack")) = 2

\* the methods one emitted event made Main call on the services, in order
MethodsCalledFor(e) ==
  [k \in 1..e.calls |-> serviceCalls[e.callsAt + k].method]

\* the calls that lead up to a signature, in the order the listener awaits them
LookupsThenSign ==
  <<"getTransactionCount", "getGasPrice", "estimateGasLimit", "signTransaction">>

\* C23: on an updateOptions event of the transaction slice, signTransaction is
\* called only if from, gasLimit, maxFeePerGas, maxPriorityFeePerGas and value
\* are all defined and only after the nonce lookup, the gas price lookup and
\* the gas limit estimate were made in that order and none of them failed;
\* with any of the five fields undefined no service is called at all.
C23_SignOnlyAfterLookups ==
  \A i \in DOMAIN emitted :
    (emitted[i].emitter = "transactionSlice" /\ emitted[i].event = "updateOptions") =>
      LET e == emitted[i]
          methods == MethodsCalledFor(e)
          undefinedField == \E field \in RequiredOptions : e.payload[field] = "undefined"
      IN /\ undefinedField => e.calls = 0
         /\ e.calls <= Len(LookupsThenSign)
         /\ methods = SubSeq(LookupsThenSign, 1, e.calls)
         /\ (\E k \in DOMAIN methods : methods[k] = "signTransaction") =>
              /\ ~undefinedField
              /\ methods = LookupsThenSign
              /\ e.failed \in {None, "signTransaction"}
         /\ e.failed \in {"getTransactionCount", "getGasPrice", "estimateGasLimit"} =>
              /\ methods[e.calls] = e.failed
              /\ \A k \in DOMAIN methods : methods[k] # "signTransaction"

\* C23 witness: one updateOptions event with every field defined led to the
\* three lookups and the signature, and one whose gas limit estimate failed
\* stopped there
C23_Witness ==
  /\ Len(emitted) = 2
  /\ \A i \in DOMAIN emitted :
       /\ emitted[i].emitter = "transactionSlice"
       /\ emitted[i].event = "updateOptions"
       /\ emitted[i].payload = FullOptions
  /\ emitted[1].failed = None
  /\ MethodsCalledFor(emitted[1]) = LookupsThenSign
  /\ emitted[2].failed = "estimateGasLimit"
  /\ MethodsCalledFor(emitted[2]) = SubSeq(LookupsThenSign, 1, 3)

(***************************************************************************)
(* The order of Main's start and stop, checked under SpecMain.             *)
(***************************************************************************)
\* C24: no service's startService is invoked before Main's base start is
\* over, the content script provider port service is set up only once all
\* five startService calls have resolved, and Main's base stop runs only once
\* all five stopService calls have resolved.
C24_BaseStartFirstBaseStopLast ==
  /\ startPc \in {"idle", "superStart"} => \A svc \in Services : svcStart[svc] = "idle"
  /\ startPc \in {"portService", "started"} => \A svc \in Services : svcStart[svc] = "done"
  /\ stopPc = "idle" => \A svc \in Services : svcStop[svc] = "idle"
  /\ stopPc \in {"superStop", "stopped"} => \A svc \in Services : svcStop[svc] = "done"

\* C24 witness: Main was started and stopped, and each of the five services
\* was started and stopped on the way
C24_Witness ==
  /\ startPc = "started"
  /\ stopPc = "stopped"
  /\ \A svc \in Services : svcStart[svc] = "done" /\ svcStop[svc] = "done"

(***************************************************************************)
(* Properties of the restore of the stored state, checked under SpecMain.  *)
(***************************************************************************)
\* the statement of Main.create that reads the stored state
ReadCacheStep == CHOOSE i \in DOMAIN CreateSteps : CreateSteps[i].op = "readCache"

\* C13: the store of a constructed Main starts from the decoded stored state
\* only if READ_REDUX_CACHE is "true" and a state is stored; with the flag off,
\* or with nothing stored, it starts from the empty state whatever the blob
\* store holds.
C13_SnapshotOnlyIfFlagAndStored ==
  main = "constructed" =>
    /\ preloadedState # "{}" => READ_REDUX_CACHE = "true" /\ blobState # "undefined"
    /\ (READ_REDUX_CACHE # "true" \/ blobState = "undefined") => preloadedState = "{}"
    /\ (READ_REDUX_CACHE = "true" /\ blobState = "{\"a\":1}") => preloadedState = "{a: 1}"

\* the flag is off, an object is stored, and the store started empty
C13_Witness ==
  /\ main = "constructed"
  /\ READ_REDUX_CACHE = "false"
  /\ blobState = "{\"a\":1}"
  /\ preloadedState = "{}"

\* C14: with READ_REDUX_CACHE "true" and a stored text that does not decode,
\* or decodes to null or to something that is no object, Main.create never
\* gets past reading it: no Main is constructed, no store is created, no
\* listener is attached, and the promise of Main.create never resolves.
C14_BadSnapshotIsFatal ==
  (READ_REDUX_CACHE = "true" /\ blobState \in {"5", "null", "{"}) =>
    /\ createPc <= ReadCacheStep
    /\ createResult \in {"pending", "rejected"}
    /\ createResult = "pending" => awaited = {}
    /\ main = "none"
    /\ preloadedState = None
    /\ listeners = << >>
    /\ alarm = "none"

\* Main.create rejected at the read of a text that is no JSON
C14_Witness ==
  /\ READ_REDUX_CACHE = "true"
  /\ blobState = "{"
  /\ createPc = ReadCacheStep
  /\ createResult = "rejected"
  /\ main = "none"

C16_ActionCreatorOnlyBuildsAction ==
  [][returnedAction' # returnedAction =>
       /\ returnedAction'.result =
            [type |-> returnedAction'.typePrefix, payload |-> returnedAction'.arg]
       /\ UNCHANGED <<allAliases, registerCalls, thunks, dispatchLog, dispatched,
                      storageSetCalls, reducedCount, snapshots>>]_vars

\* the creator registered for X was called with a1
C16_Witness ==
  /\ returnedAction.typePrefix = "X"
  /\ returnedAction.arg = "a1"
  /\ returnedAction.result = [type |-> "X", payload |-> "a1"]
  /\ "X" \in DOMAIN allAliases
  /\ thunks = << >>

(***************************************************************************)
(* Properties of the middleware pipeline, checked under SpecThunk.         *)
(***************************************************************************)
\* type and payload of the actions in a sequence
TypeAndPayload(actions) ==
  [i \in DOMAIN actions |-> [type |-> actions[i].type, payload |-> actions[i].payload]]

\* C15: the actions of types without an entry in allAliases that were handed
\* to dispatch are, with the type and payload they came with, each once and
\* in the order of their dispatch, the plain actions the reducers received.
C15_UnaliasedPassThrough ==
  TypeAndPayload(SelectSeq(dispatchLog, LAMBDA a : a.phase = "action" /\ a.reduced))
    = SelectSeq(dispatched, LAMBDA a : ~AlreadyAliased(allAliases, a.type))

\* two actions of a type that is not registered were dispatched, a2 before a1
C15_Witness ==
  /\ "X" \in DOMAIN allAliases
  /\ dispatched = <<[type |-> "plain", payload |-> "a2"],
                    [type |-> "plain", payload |-> "a1"]>>
  /\ Len(dispatchLog) = 2
  /\ dispatchLog[1].payload = "a2" /\ dispatchLog[1].reduced
  /\ dispatchLog[2].payload = "a1" /\ dispatchLog[2].reduced

\* C17: a relayed invocation whose condition signals skip (the thunk was
\* registered with the condition that refuses a2, and a2 is the payload)
\* dispatched no Pending, Fulfilled or Rejected action, did not run its
\* operation, and its call resolved; no rejection was left unhandled.
C17_SkippedInvocationIsInert ==
  /\ unhandledRejections["operation"] = 0
  /\ \A i \in DOMAIN dispatchLog :
       LET call == dispatchLog[i]
       IN IsAliasedCall(call) =>
            LET t == thunks[call.requestId]
            IN IF allAliases[call.type].options = "skipA2" /\ call.payload = "a2"
                 THEN /\ t.status = "skipped"
                      /\ t.outcome = None
                      /\ t.promise = "resolved"
                      /\ Lifecycle(call.requestId) = << >>
                 ELSE t.status # "skipped"

\* the thunk registered for Y with the condition was dispatched with a2
C17_Witness ==
  \E requestId \in DOMAIN thunks :
    /\ thunks[requestId].status = "skipped"
    /\ thunks[requestId].typePrefix = "Y"
    /\ thunks[requestId].arg = "a2"
    /\ Lifecycle(requestId) = << >>

\* the number of actions reduced when the first `upTo` entries of the log
\* had gone through the pipeline
ReducedUpTo(upTo) ==
  Cardinality({j \in 1..upTo : dispatchLog[j].reduced})

\* C18: an action of an aliased type is taken by the alias stage before any
\* other stage sees it: it reaches neither the reducers nor the cache stage,
\* and its thunk runs; every snapshot handed to the blob store is the encoding
\* of the state the store holds after the action of that dispatch was
\* reduced, never of the state before it.
C18_AliasFirstCacheLast ==
  /\ \A i \in DOMAIN dispatchLog :
       IsAliasedCall(dispatchLog[i]) =>
         /\ ~dispatchLog[i].reduced
         /\ dispatchLog[i].writes = << >>
         /\ dispatchLog[i].requestId \in DOMAIN thunks
  /\ Len(snapshots) = storageSetCalls
  /\ \A k \in DOMAIN snapshots :
       /\ snapshots[k].at \in DOMAIN dispatchLog
       /\ dispatchLog[snapshots[k].at].reduced
       /\ snapshots[k].state = encodeJSON(ReducedUpTo(snapshots[k].at))
       /\ \A j \in 1..(k - 1) : snapshots[j].at < snapshots[k].at
  /\ reducedCount = ReducedUpTo(Len(dispatchLog))

\* a relayed action, its Pending and Fulfilled and a plain action: three
\* snapshots, of the states after the first, second and third reduction
C18_Witness ==
  /\ WRITE_REDUX_CACHE = "true"
  /\ Len(dispatchLog) = 4
  /\ IsAliasedCall(dispatchLog[1])
  /\ dispatchLog[3].phase = "fulfilled"
  /\ Len(snapshots) = 3
  /\ snapshots[1] = [at |-> 2, state |-> encodeJSON(1)]
  /\ snapshots[3] = [at |-> 4, state |-> encodeJSON(3)]

(***************************************************************************)
(* The codec at work: a value is built, encoded and decoded again.         *)
(***************************************************************************)
\* the value in hand becomes the only element of a new sequence
WrapInSequence ==
  /\ wire = << >> /\ decoded = NoValue
  /\ Depth(codecValue) < MaxDepth
  /\ codecValue' = Value("array", <<codecValue>>)
  /\ UNCHANGED <<wire, decoded, aliasVars, storeVars, mainVars, lifecycleVars,
                 eventVars, uiVars>>

\* the value in hand becomes the only member of a new mapping
WrapInMapping ==
  \E key \in {KeyOrder[i] : i \in DOMAIN KeyOrder} :
    /\ wire = << >> /\ decoded = NoValue
    /\ Depth(codecValue) < MaxDepth
    /\ codecValue' = Value("object", PutMember(EmptyMembers, key, codecValue))
    /\ UNCHANGED <<wire, decoded, aliasVars, storeVars, mainVars, lifecycleVars,
                   eventVars, uiVars>>

\* a primitive is appended to the sequence in hand
AppendElement ==
  \E leaf \in MoreLeaves :
    /\ wire = << >> /\ decoded = NoValue
    /\ codecValue.kind = "array"
    /\ Len(codecValue.val) < MaxLength
    /\ codecValue' = Value("array", Append(codecValue.val, leaf))
    /\ UNCHANGED <<wire, decoded, aliasVars, storeVars, mainVars, lifecycleVars,
                   eventVars, uiVars>>

\* a primitive is stored under a further key of the mapping in hand
AddMember ==
  \E key \in {KeyOrder[i] : i \in DOMAIN KeyOrder}, leaf \in MoreLeaves :
    /\ wire = << >> /\ decoded = NoValue
    /\ codecValue.kind = "object"
    /\ key \notin DOMAIN codecValue.val
    /\ Cardinality(DOMAIN codecValue.val) < MaxLength
    /\ codecValue' = Value("object", PutMember(codecValue.val, key, leaf))
    /\ UNCHANGED <<wire, decoded, aliasVars, storeVars, mainVars, lifecycleVars,
                   eventVars, uiVars>>

\* encodeJSON(value)
Encode ==
  /\ wire = << >> /\ decoded = NoValue
  /\ wire' = encode(codecValue)
  /\ UNCHANGED <<codecValue, decoded, aliasVars, storeVars, mainVars, lifecycleVars,
                 eventVars, uiVars>>

\* decodeJSON(text)
Decode ==
  /\ wire # << >>
  /\ decoded = NoValue
  /\ decoded' = decode(wire)
  /\ UNCHANGED <<codecValue, wire, aliasVars, storeVars, mainVars, lifecycleVars,
                 eventVars, uiVars>>

\* a primitive value is in hand, nothing else has happened
InitCodecValues ==
  /\ allAliases = EmptyAliases
  /\ registerCalls = << >>
  /\ InitStore
  /\ InitUi
  /\ MainCreateCalled("false", "undefined", << >>)
  /\ codecValue \in Leaves
  /\ wire = << >>
  /\ decoded = NoValue

NextCodec ==
  \/ WrapInSequence
  \/ WrapInMapping
  \/ AppendElement
  \/ AddMember
  \/ Encode
  \/ Decode

SpecCodec == InitCodecValues /\ [][NextCodec]_vars

\* C21: for every value built from null, booleans, ordinary numbers,
\* extended-precision integers, strings, ordered sequences and string-keyed
\* mappings, decoding the encoded value gives a value structurally equal to
\* it; an extended-precision integer stays one and never becomes a number.
C21_RoundTrip ==
  decoded # NoValue => decoded = codecValue

\* C21 witness: the mapping {a: <extended integer 10>} went through the codec
\* and came back as {a: <extended integer 10>}, not as {a: 10}
C21_Witness ==
  /\ codecValue = Value("object", PutMember(EmptyMembers, "a", Value("bigint", 10)))
  /\ wire = <<Token("punct", "{"), Token("str", "a"), Token("punct", ":"),
             Token("tag", "bigint"), Token("num", 10), Token("punct", "}")>>
  /\ decoded = codecValue
  /\ decoded # Value("object", PutMember(EmptyMembers, "a", Value("number", 10)))

====
